---------------------------- MODULE Spec2Model ----------------------------
(***************************************************************************)
(* price-bot: the run orchestrator (src/run.ts), the lifecycle store       *)
(* (src/core/state.ts) and the matching engine (src/core/match.ts).        *)
(*                                                                         *)
(* Optional values (soldAt, minPriceUsd, shipping, a stored entry, a       *)
(* price-drop annotation) are sequences of length 0 (absent) or 1.         *)
(* Timestamps are integers counting days; prices are integers (USD).       *)
(* Strings the code inspects character by character (titles, terms) are    *)
(* sequences of one-character strings.                                     *)
(***************************************************************************)
EXTENDS Integers, Sequences, FiniteSets, TLC

(***************************************************************************)
(* Bounds of the model.                                                    *)
(***************************************************************************)
\* number of runs the scheduler starts
MaxRuns == 5
MaxRunsTrio == 3
MaxRunsMulti == 2
MaxRunsDuo == 4
MaxRunsTwin == 2
\* the scheduler starts a run every ShortGap or every LongGap days
ShortGap == 1
LongGap == 6
\* the day on which a state file that already holds entries was last written
SweepStart == 10
\* the longest list of listings calculateMarketStats is called with
MaxListed == 4
\* the largest number of retries retry is called with
MaxRetries == 3
\* the longest batch sendDiscordAlerts is called with
MaxBatch == 11

(***************************************************************************)
(* Program constants.                                                      *)
(***************************************************************************)
SOLD_RETENTION_DAYS == 5
\* run.ts: if (entry.missedRuns >= 3)
SoldThreshold == 3

None == << >>
Some(x) == << x >>
IsSome(o) == Len(o) = 1
Val(o) == o[1]

(***************************************************************************)
(* core/match.ts                                                           *)
(***************************************************************************)
DEFAULT_EXCLUDES ==
  << <<"d", "e", "c", "k", " ", "s", "a", "v", "e", "r">>,
     <<"d", "e", "c", "k", "s", "a", "v", "e", "r">>,
     <<"o", "v", "e", "r", "l", "a", "y">>,
     <<"t", "e", "m", "p", "l", "a", "t", "e">>,
     <<"m", "a", "n", "u", "a", "l">>,
     <<"k", "n", "o", "b">>,
     <<"s", "t", "a", "n", "d">>,
     <<"p", "a", "r", "t", "s">>,
     <<"r", "e", "p", "a", "i", "r">>,
     <<"b", "r", "o", "k", "e", "n">>,
     <<"f", "o", "r", " ", "p", "a", "r", "t", "s">>,
     <<"p", "o", "w", "e", "r", " ", "s", "u", "p", "p", "l", "y">>,
     <<"a", "d", "a", "p", "t", "e", "r">> >>

accessoryWords ==
  << <<"c", "a", "s", "e">>,
     <<"c", "o", "v", "e", "r">>,
     <<"d", "e", "c", "k">>,
     <<"d", "e", "c", "k", "s", "a", "v", "e", "r">>,
     <<"o", "v", "e", "r", "l", "a", "y">>,
     <<"t", "e", "m", "p", "l", "a", "t", "e">> >>

brandToken == <<"r", "o", "l", "a", "n", "d">>

UpperCase ==
  {"A", "B", "C", "D", "E", "F", "G", "H", "I", "J", "K", "L", "M",
   "N", "O", "P", "Q", "R", "S", "T", "U", "V", "W", "X", "Y", "Z"}

toLowerCase ==
  [c \in UpperCase |->
     CASE c = "A" -> "a" [] c = "B" -> "b" [] c = "C" -> "c" [] c = "D" -> "d"
       [] c = "E" -> "e" [] c = "F" -> "f" [] c = "G" -> "g" [] c = "H" -> "h"
       [] c = "I" -> "i" [] c = "J" -> "j" [] c = "K" -> "k" [] c = "L" -> "l"
       [] c = "M" -> "m" [] c = "N" -> "n" [] c = "O" -> "o" [] c = "P" -> "p"
       [] c = "Q" -> "q" [] c = "R" -> "r" [] c = "S" -> "s" [] c = "T" -> "t"
       [] c = "U" -> "u" [] c = "V" -> "v" [] c = "W" -> "w" [] c = "X" -> "x"
       [] c = "Y" -> "y" [] c = "Z" -> "z"]

\* characters matched by \s among those the model uses
WhiteSpace == {" ", "\t"}

RECURSIVE collapse(_, _)
\* s.replace(/\s+/g, ' '): every maximal run of whitespace becomes one space
collapse(s, inRun) ==
  IF s = << >> THEN << >>
  ELSE IF Head(s) \in WhiteSpace
       THEN (IF inRun THEN << >> ELSE <<" ">>) \o collapse(Tail(s), TRUE)
       ELSE <<Head(s)>> \o collapse(Tail(s), FALSE)

\* String.prototype.trim on a text whose whitespace runs are already single
trim(s) ==
  LET a == IF s # << >> /\ Head(s) = " " THEN Tail(s) ELSE s
  IN  IF a # << >> /\ a[Len(a)] = " " THEN SubSeq(a, 1, Len(a) - 1) ELSE a

norm(s) ==
  LET lower == [i \in 1..Len(s) |->
                  IF s[i] \in UpperCase THEN toLowerCase[s[i]] ELSE s[i]]
  IN  trim(collapse(lower, FALSE))

\* String.prototype.includes
includes(text, term) ==
  \E i \in 0..(Len(text) - Len(term)) :
     \A j \in 1..Len(term) : text[i + j] = term[j]

RegexFlags == {"g", "i", "m", "s", "u", "y"}
Digits == {"0", "1", "2", "3", "4", "5", "6", "7", "8", "9"}

\* index of the last "/" of a term, 0 when it has none
lastSlash(term) ==
  IF \E i \in 1..Len(term) : term[i] = "/"
  THEN CHOOSE i \in 1..Len(term) :
         term[i] = "/" /\ \A j \in (i + 1)..Len(term) : term[j] # "/"
  ELSE 0

\* /^\/.*\/[gimsuy]*$/.test(term)
isRegexPattern(term) ==
  /\ Len(term) >= 2
  /\ term[1] = "/"
  /\ lastSlash(term) >= 2
  /\ \A j \in (lastSlash(term) + 1)..Len(term) : term[j] \in RegexFlags

RECURSIVE compile(_, _)
\* new RegExp(source): the atoms of the pattern, or None for a SyntaxError.
\* Patterns are built from literal characters, ".", "\d", escaped
\* characters and groups "(" ")", which without quantifier or alternative
\* only have to be well nested.
compile(source, depth) ==
  IF source = << >> THEN (IF depth = 0 THEN Some(<< >>) ELSE None)
  ELSE LET c == Head(source)
           then(atom, rest) ==
             IF IsSome(rest) THEN Some(atom \o Val(rest)) ELSE None
       IN  IF c = "\\"
           THEN IF Len(source) = 1 THEN None
                ELSE then(<< [kind |-> IF source[2] = "d" THEN "digit" ELSE "char",
                              ch |-> source[2]] >>,
                          compile(SubSeq(source, 3, Len(source)), depth))
           ELSE IF c = "(" THEN compile(Tail(source), depth + 1)
           ELSE IF c = ")"
                THEN (IF depth = 0 THEN None ELSE compile(Tail(source), depth - 1))
           ELSE then(<< [kind |-> IF c = "." THEN "any" ELSE "char", ch |-> c] >>,
                     compile(Tail(source), depth))

\* result: None (null) or Some([atoms, flags])
parseRegex(pattern) ==
  LET source == SubSeq(pattern, 2, lastSlash(pattern) - 1)
      given == SubSeq(pattern, lastSlash(pattern) + 1, Len(pattern))
      flags == IF "i" \in {given[i] : i \in 1..Len(given)}
               THEN given ELSE given \o <<"i">>
      atoms == compile(source, 0)
  IN  IF ~ isRegexPattern(pattern) THEN None
      \* a flag given twice, or a pattern that does not compile: new RegExp throws
      ELSE IF \E i, j \in 1..Len(flags) : i # j /\ flags[i] = flags[j] THEN None
      ELSE IF ~ IsSome(atoms) THEN None
      ELSE Some([atoms |-> Val(atoms), flags |-> flags])

lower(c) == IF c \in UpperCase THEN toLowerCase[c] ELSE c

\* RegExp.prototype.test on a fresh RegExp whose flags hold "i"
test(regex, text) ==
  LET n == Len(regex.atoms)
      fits(atom, c) ==
        CASE atom.kind = "any" -> TRUE
          [] atom.kind = "digit" -> c \in Digits
          [] OTHER -> lower(atom.ch) = lower(c)
      starts == IF "y" \in {regex.flags[i] : i \in 1..Len(regex.flags)}
                THEN {0} ELSE 0..Len(text)
  IN  \E i \in starts :
         /\ i + n <= Len(text)
         /\ \A j \in 1..n : fits(regex.atoms[j], text[i + j])

\* matchesTerm with a term that does not compile matching every text
matchesTermFailOpen(text, term) ==
  IF isRegexPattern(term)
  THEN (IF IsSome(parseRegex(term)) THEN test(Val(parseRegex(term)), text) ELSE TRUE)
  ELSE includes(text, norm(term))

\* a term is the string of the watchlist, as characters
matchesTerm(text, term) ==
  IF isRegexPattern(term)
  THEN (IF IsSome(parseRegex(term)) THEN test(Val(parseRegex(term)), text) ELSE FALSE)
  ELSE includes(text, norm(term))

SeqToSet(s) == {s[i] : i \in 1..Len(s)}

\* titlePasses without the spread of DEFAULT_EXCLUDES in line 165
titlePassesOwnExcludes(product, title) ==
  LET t == norm(title)
      includeTerms == {x \in SeqToSet(product.includeTerms) : x # << >>}
      excludeTerms == {x \in SeqToSet(product.excludeTerms) : x # << >>}
      hasAccessory == \E w \in SeqToSet(accessoryWords) : includes(t, w)
  IN  /\ (includeTerms # {} => \E term \in includeTerms : matchesTerm(t, term))
      /\ ~ \E term \in excludeTerms : matchesTerm(t, term)
      /\ ~ (hasAccessory /\ ~ includes(t, brandToken))

\* titlePasses with the brand test on the wrong side
titlePassesBrandOnly(product, title) ==
  LET t == norm(title)
      includeTerms == {x \in SeqToSet(product.includeTerms) : x # << >>}
      excludeTerms == {x \in SeqToSet(product.excludeTerms)
                            \cup SeqToSet(DEFAULT_EXCLUDES) : x # << >>}
      hasAccessory == \E w \in SeqToSet(accessoryWords) : includes(t, w)
  IN  /\ (includeTerms # {} => \E term \in includeTerms : matchesTerm(t, term))
      /\ ~ \E term \in excludeTerms : matchesTerm(t, term)
      /\ ~ (hasAccessory /\ includes(t, brandToken))

titlePasses(product, title) ==
  LET t == norm(title)
      includeTerms == {x \in SeqToSet(product.includeTerms) : x # << >>}
      excludeTerms == {x \in SeqToSet(product.excludeTerms)
                            \cup SeqToSet(DEFAULT_EXCLUDES) : x # << >>}
      hasAccessory == \E w \in SeqToSet(accessoryWords) : includes(t, w)
  IN  /\ (includeTerms # {} => \E term \in includeTerms : matchesTerm(t, term))
      /\ ~ \E term \in excludeTerms : matchesTerm(t, term)
      /\ ~ (hasAccessory /\ ~ includes(t, brandToken))

\* 'Shipping unknown (verify on listing)'
shippingUnknownNote ==
  <<"S", "h", "i", "p", "p", "i", "n", "g", " ", "u", "n", "k", "n", "o", "w", "n",
    " ", "(", "v", "e", "r", "i", "f", "y", " ", "o", "n", " ",
    "l", "i", "s", "t", "i", "n", "g", ")">>

\* a listing's shipping is None, or Some([amount, known]) where known is
\* None (the field is not set), Some(TRUE) or Some(FALSE); the adapters
\* never produce an amount that is not a number

\* computeEffectivePriceUsd returning no note for unknown shipping
computeEffectivePriceUsdWithoutNote(listing, settings) ==
  LET price == listing.price.amount
      shipKnown == /\ IsSome(listing.shipping)
                   /\ Val(listing.shipping).known # Some(FALSE)
  IN  IF ~ settings.includeShippingInThreshold
      THEN [effective |-> price, shippingNote |-> None]
      ELSE IF ~ shipKnown
           THEN [effective |-> price, shippingNote |-> None]
           ELSE [effective |-> price + Val(listing.shipping).amount,
                 shippingNote |-> None]

\* computeEffectivePriceUsd adding the amount whatever the known mark says
computeEffectivePriceUsdIgnoringKnown(listing, settings) ==
  LET price == listing.price.amount
      shipKnown == IsSome(listing.shipping)
  IN  IF ~ settings.includeShippingInThreshold
      THEN [effective |-> price, shippingNote |-> None]
      ELSE IF ~ shipKnown
           THEN [effective |-> price, shippingNote |-> Some(shippingUnknownNote)]
           ELSE [effective |-> price + Val(listing.shipping).amount,
                 shippingNote |-> None]

\* result: [effective, shippingNote]; shippingNote is None or Some(note)
computeEffectivePriceUsd(listing, settings) ==
  LET price == listing.price.amount
      shipKnown == /\ IsSome(listing.shipping)
                   /\ Val(listing.shipping).known # Some(FALSE)
  IN  IF ~ settings.includeShippingInThreshold
      THEN [effective |-> price, shippingNote |-> None]
      ELSE IF ~ shipKnown
           THEN [effective |-> price, shippingNote |-> Some(shippingUnknownNote)]
           ELSE [effective |-> price + Val(listing.shipping).amount,
                 shippingNote |-> None]

RECURSIVE insertByPriceDescending(_, _)
\* insertByPrice for the comparator b.effectivePriceUsd - a.effectivePriceUsd
insertByPriceDescending(sorted, m) ==
  IF sorted = << >> THEN <<m>>
  ELSE IF Head(sorted).effectivePriceUsd >= m.effectivePriceUsd
       THEN <<Head(sorted)>> \o insertByPriceDescending(Tail(sorted), m)
       ELSE <<m>> \o sorted

RECURSIVE insertByPrice(_, _)
\* position of m in a list already sorted: after every element that is not
\* more expensive (Array.prototype.sort is stable)
insertByPrice(sorted, m) ==
  IF sorted = << >> THEN <<m>>
  ELSE IF Head(sorted).effectivePriceUsd <= m.effectivePriceUsd
       THEN <<Head(sorted)>> \o insertByPrice(Tail(sorted), m)
       ELSE <<m>> \o sorted

RECURSIVE sortByPrice(_)
sortByPrice(ms) ==
  IF ms = << >> THEN << >>
  ELSE insertByPrice(sortByPrice(SubSeq(ms, 1, Len(ms) - 1)), ms[Len(ms)])

\* qualifies with the maximum exclusive
qualifiesBelowMax(product, l, settings) ==
  LET e == computeEffectivePriceUsd(l, settings).effective
  IN  /\ titlePasses(product, l.title)
      /\ norm(l.price.currency) = <<"u", "s", "d">>
      /\ ~ (IsSome(product.minPriceUsd) /\ e < Val(product.minPriceUsd))
      /\ e < product.maxPriceUsd

\* the test of the loop body of filterMatches
qualifies(product, l, settings) ==
  LET e == computeEffectivePriceUsd(l, settings).effective
  IN  /\ titlePasses(product, l.title)
      /\ norm(l.price.currency) = <<"u", "s", "d">>
      /\ ~ (IsSome(product.minPriceUsd) /\ e < Val(product.minPriceUsd))
      /\ e <= product.maxPriceUsd

toMatch(product, l, settings) ==
  LET r == computeEffectivePriceUsd(l, settings)
  IN  [productId |-> product.id,
       maxPriceUsd |-> product.maxPriceUsd,
       listing |-> l,
       effectivePriceUsd |-> r.effective,
       shippingNote |-> r.shippingNote,
       priceDrop |-> None]

filterMatches(product, listings, settings) ==
  LET keep == SelectSeq(listings, LAMBDA l : qualifies(product, l, settings))
  IN  sortByPrice([i \in 1..Len(keep) |-> toMatch(product, keep[i], settings)])


(***************************************************************************)
(* run.ts: calculateMarketStats.  null is None.  avgPrice and medianPrice  *)
(* are rounded to two decimals and are counted in hundredths; minPrice,    *)
(* maxPrice and the prices of the samples are effective prices as they     *)
(* are, in units.                                                          *)
(***************************************************************************)
\* String.prototype.toUpperCase
toUpperCase(s) ==
  [i \in 1..Len(s) |->
     IF \E c \in UpperCase : toLowerCase[c] = s[i]
     THEN CHOOSE c \in UpperCase : toLowerCase[c] = s[i]
     ELSE s[i]]

\* lines 72-79 and 93-100
emptyStats ==
  [count |-> 0, minPrice |-> None, maxPrice |-> None, avgPrice |-> None,
   medianPrice |-> None, samples |-> << >>]

\* line 85 keeping the listings of every currency
isUsdAny(l) == TRUE

\* line 85
isUsd(l) == toUpperCase(l.price.currency) = <<"U", "S", "D">>

RECURSIVE insertPriced(_, _)
\* place of p in a list sorted by (a, b) => a.price - b.price: after every
\* element that is not more expensive (Array.prototype.sort is stable)
insertPriced(sorted, p) ==
  IF sorted = << >> THEN <<p>>
  ELSE IF Head(sorted).price <= p.price
       THEN <<Head(sorted)>> \o insertPriced(Tail(sorted), p)
       ELSE <<p>> \o sorted

RECURSIVE sortPriced(_)
sortPriced(ps) ==
  IF ps = << >> THEN << >>
  ELSE insertPriced(sortPriced(SubSeq(ps, 1, Len(ps) - 1)), ps[Len(ps)])

\* lines 84-90
pricedOf(listings, settings) ==
  LET usd == SelectSeq(listings, isUsd)
  IN  sortPriced([i \in 1..Len(usd) |->
                    [listing |-> usd[i],
                     price |-> computeEffectivePriceUsd(usd[i], settings).effective]])

RECURSIVE sumOf(_)
\* prices.reduce((a, b) => a + b, 0)
sumOf(prices) == IF prices = << >> THEN 0 ELSE Head(prices) + sumOf(Tail(prices))

\* Math.round(x * 100) / 100 for x = num / den >= 0, in hundredths: the
\* nearest hundredth, the upper one when x * 100 lies half way
round2(num, den) == (200 * num + den) \div (2 * den)

\* medianOf taking the upper middle price for every count
medianUpper(prices) ==
  LET mid == Len(prices) \div 2
  IN  [num |-> prices[mid + 1], den |-> 1]

\* lines 106-107: the median before rounding, as a fraction
medianOf(prices) ==
  LET mid == Len(prices) \div 2
  IN  IF Len(prices) % 2 = 0
      THEN [num |-> prices[mid] + prices[mid + 1], den |-> 2]
      ELSE [num |-> prices[mid + 1], den |-> 1]

\* lines 111-125: addSample(idx)
addSample(samples, priced, idx) ==
  IF idx >= 0 /\ idx < Len(priced)
  THEN LET p == priced[idx + 1]
       IN  IF \E i \in 1..Len(samples) : samples[i].url = p.listing.url
           THEN samples
           ELSE Append(samples, [title |-> p.listing.title, price |-> p.price,
                                 url |-> p.listing.url, source |-> p.listing.source])
  ELSE samples

\* lines 127-131
samplesOf(priced) ==
  LET n == Len(priced)
      s1 == addSample(<< >>, priced, 0)
      s2 == addSample(s1, priced, n \div 4)
      s3 == addSample(s2, priced, n \div 2)
      s4 == addSample(s3, priced, (3 * n) \div 4)
  IN  addSample(s4, priced, n - 1)

calculateMarketStats(listings, settings) ==
  IF listings = << >> THEN emptyStats
  ELSE LET priced == pricedOf(listings, settings)
           prices == [i \in 1..Len(priced) |-> priced[i].price]
           median == medianOf(prices)
       IN  IF priced = << >> THEN emptyStats
           ELSE [count |-> Len(priced),
                 minPrice |-> Some(prices[1]),
                 maxPrice |-> Some(prices[Len(prices)]),
                 avgPrice |-> Some(round2(sumOf(prices), Len(prices))),
                 medianPrice |-> Some(round2(median.num, median.den)),
                 samples |-> samplesOf(priced)]


(***************************************************************************)
(* Inputs: the watchlist (config/watchlist.yml) and what the marketplaces  *)
(* answer.                                                                 *)
(***************************************************************************)
synthTerm == <<"s", "y", "n", "t", "h">>

settings == [includeShippingInThreshold |-> TRUE]

\* the watchlists modelled; "etsy" is a marketplace without adapter
\*   "solo":  one product, one listing id whose price moves
\*   "trio":  one product, three listing ids
\*   "multi": two products on two marketplaces each
\*   "duo":   one product on etsy and on two marketplaces that have an adapter
\*   "twin":  one product whose marketplaces name ebay twice
Watchlists == {"solo", "trio", "multi", "duo", "twin"}

products(w) ==
  IF w \in {"solo", "trio"}
  THEN << [id |-> "p1", minPriceUsd |-> None, maxPriceUsd |-> 500,
           marketplaces |-> <<"etsy", "ebay">>,
           includeTerms |-> <<synthTerm>>, excludeTerms |-> << >>] >>
  ELSE IF w \in {"duo", "twin"}
  THEN << [id |-> "p1", minPriceUsd |-> None, maxPriceUsd |-> 500,
           marketplaces |-> IF w = "duo" THEN <<"etsy", "ebay", "reverb">>
                            ELSE <<"etsy", "ebay", "ebay">>,
           includeTerms |-> <<synthTerm>>, excludeTerms |-> << >>] >>
  ELSE << [id |-> "p1", minPriceUsd |-> None, maxPriceUsd |-> 500,
           marketplaces |-> <<"ebay", "reverb">>,
           includeTerms |-> <<synthTerm>>, excludeTerms |-> << >>],
          [id |-> "p2", minPriceUsd |-> Some(100), maxPriceUsd |-> 500,
           marketplaces |-> <<"etsy", "ebay">>,
           includeTerms |-> << >>, excludeTerms |-> << >>] >>

\* the scheduler starts at most this many runs
RunLimit(w) ==
  CASE w = "solo" -> MaxRuns
    [] w = "trio" -> MaxRunsTrio
    [] w = "multi" -> MaxRunsMulti
    [] w = "duo" -> MaxRunsDuo
    [] w = "twin" -> MaxRunsTwin

\* getAdapters(): the marketplaces that have an adapter
Adapters == {"ebay", "reverb", "amazon"}
Markets == {"ebay", "reverb", "etsy"}
ProductIds == {"p1", "p2"}
IdOrder == <<"A", "B", "C">>
ListingIds == SeqToSet(IdOrder)

\* the prices at which a marketplace may list each listing for a product
Offers(w, market, productId) ==
  [id \in ListingIds |->
     IF w = "solo" THEN (IF id = "A" THEN {320, 400, 600} ELSE {})
     ELSE IF w = "trio" THEN (IF id = "A" THEN {400, 600} ELSE {400})
     ELSE IF w = "twin" THEN (IF id = "A" THEN {320, 400} ELSE IF id = "B" THEN {400} ELSE {})
     ELSE (IF id = "A" THEN {400} ELSE {})]

Picks(w, market, productId) ==
  {f \in [ListingIds -> {None, Some(320), Some(400), Some(600)}] :
     \A id \in ListingIds :
        IsSome(f[id]) => Val(f[id]) \in Offers(w, market, productId)[id]}

synthTitle ==
  <<"R", "o", "l", "a", "n", "d", " ", "S", "y", "n", "t", "h", "-", "8">>

mkListing(market, id, amount) ==
  [source |-> market, sourceId |-> id, title |-> synthTitle,
   price |-> [amount |-> amount, currency |-> <<"U", "S", "D">>],
   shipping |-> None]

\* the listings an adapter returns: one per listed id (the adapters drop
\* repeated sourceIds), in a fixed order
searchResult(market, f) ==
  LET listed == SelectSeq(IdOrder, LAMBDA id : IsSome(f[id]))
  IN  [i \in 1..Len(listed) |-> mkListing(market, listed[i], Val(f[listed[i]]))]

(***************************************************************************)
(* core/state.ts                                                           *)
(***************************************************************************)
Keys == Markets \X ProductIds \X ListingIds

\* data/state.json before the first run
emptyStateFile == [updatedAt |-> None, seen |-> [k \in Keys |-> None]]

readState(file) == file

markSeen(seen, market, productId, listingId, entry) ==
  [seen EXCEPT ![<<market, productId, listingId>>] = Some(entry)]

RECURSIVE sweep(_, _, _, _)
\* the loops of lines 223-234 over the entries not yet visited
sweep(seen, todo, cutoff, removed) ==
  IF todo = {} THEN [seen |-> seen, removed |-> removed]
  ELSE LET k == CHOOSE x \in todo : TRUE
           entry == seen[k]
       IN  IF /\ IsSome(entry)
              /\ IsSome(Val(entry).soldAt)
              /\ Val(Val(entry).soldAt) < cutoff
           THEN sweep([seen EXCEPT ![k] = None], todo \ {k}, cutoff, removed + 1)
           ELSE sweep(seen, todo \ {k}, cutoff, removed)

\* cleanupOldSoldItems deleting the entries sold exactly at the cutoff too
cleanupOldSoldItemsAtCutoff(seen, now) ==
  sweep(seen, Keys, now - SOLD_RETENTION_DAYS + 1, 0)

\* result: [seen, removed]
cleanupOldSoldItems(seen, now) ==
  sweep(seen, Keys, now - SOLD_RETENTION_DAYS, 0)

\* appendHistory writing the new record in front of the others
appendHistoryFirst(arr, record) == <<record>> \o arr

appendHistory(arr, record) == Append(arr, record)

(***************************************************************************)
(* run.ts: the pieces of main()                                            *)
(***************************************************************************)
keyOf(m) == <<m.listing.source, m.productId, m.listing.sourceId>>

\* dedupe with the comparison of line 227 written <=
RECURSIVE dedupeSamePrice(_, _)
dedupeSamePrice(seen, matches) ==
  IF matches = << >> THEN << >>
  ELSE LET m == Head(matches)
           existing == seen[keyOf(m)]
           rest == dedupeSamePrice(seen, Tail(matches))
       IN  IF ~ IsSome(existing) THEN <<m>> \o rest
           ELSE IF m.effectivePriceUsd <= Val(existing).lastEffectivePrice
                THEN << [m EXCEPT !.priceDrop =
                           Some([previousPrice |-> Val(existing).lastEffectivePrice,
                                 dropAmount |-> Val(existing).lastEffectivePrice
                                                  - m.effectivePriceUsd])] >>
                     \o rest
                ELSE rest

\* dedupe with the subtraction of line 229 the other way round
RECURSIVE dedupeNegativeDrop(_, _)
dedupeNegativeDrop(seen, matches) ==
  IF matches = << >> THEN << >>
  ELSE LET m == Head(matches)
           existing == seen[keyOf(m)]
           rest == dedupeNegativeDrop(seen, Tail(matches))
       IN  IF ~ IsSome(existing) THEN <<m>> \o rest
           ELSE IF m.effectivePriceUsd < Val(existing).lastEffectivePrice
                THEN << [m EXCEPT !.priceDrop =
                           Some([previousPrice |-> Val(existing).lastEffectivePrice,
                                 dropAmount |-> m.effectivePriceUsd
                                                  - Val(existing).lastEffectivePrice])] >>
                     \o rest
                ELSE rest

\* lines 219-241: the batch of New and PriceDrop matches
RECURSIVE dedupe(_, _)
dedupe(seen, matches) ==
  IF matches = << >> THEN << >>
  ELSE LET m == Head(matches)
           existing == seen[keyOf(m)]
           rest == dedupe(seen, Tail(matches))
       IN  IF ~ IsSome(existing) THEN <<m>> \o rest
           ELSE IF m.effectivePriceUsd < Val(existing).lastEffectivePrice
                THEN << [m EXCEPT !.priceDrop =
                           Some([previousPrice |-> Val(existing).lastEffectivePrice,
                                 dropAmount |-> Val(existing).lastEffectivePrice
                                                  - m.effectivePriceUsd])] >>
                     \o rest
                ELSE rest

\* newEntry without line 256: firstSeenAt is not taken from the stored entry
newEntryReset(seen, m, runAt) ==
  [firstSeenAt |-> runAt,
   lastSeenAt |-> runAt,
   lastEffectivePrice |-> m.effectivePriceUsd,
   missedRuns |-> 0,
   soldAt |-> None]

\* newEntry keeping the lowest price the listing has matched at
newEntryLowestPrice(seen, m, runAt) ==
  LET existing == seen[keyOf(m)]
  IN  [firstSeenAt |-> IF IsSome(existing) THEN Val(existing).firstSeenAt ELSE runAt,
       lastSeenAt |-> runAt,
       lastEffectivePrice |->
          IF IsSome(existing) /\ Val(existing).lastEffectivePrice < m.effectivePriceUsd
          THEN Val(existing).lastEffectivePrice ELSE m.effectivePriceUsd,
       missedRuns |-> 0,
       soldAt |-> None]

\* lines 246-257: the entry recorded for one match
newEntry(seen, m, runAt) ==
  LET existing == seen[keyOf(m)]
  IN  [firstSeenAt |-> IF IsSome(existing) THEN Val(existing).firstSeenAt ELSE runAt,
       lastSeenAt |-> runAt,
       lastEffectivePrice |-> m.effectivePriceUsd,
       missedRuns |-> 0,
       soldAt |-> None]

\* the loop of lines 245-258 run over the batch instead of all matches
RECURSIVE recordFreshOnly(_, _, _)
recordFreshOnly(seen, matches, runAt) ==
  IF matches = << >> THEN seen
  ELSE LET m == Head(matches)
           existing == seen[keyOf(m)]
       IN  IF ~ IsSome(existing)
              \/ m.effectivePriceUsd < Val(existing).lastEffectivePrice
           THEN recordFreshOnly(markSeen(seen, m.listing.source, m.productId,
                                         m.listing.sourceId, newEntry(seen, m, runAt)),
                                Tail(matches), runAt)
           ELSE recordFreshOnly(seen, Tail(matches), runAt)

\* lines 245-258
RECURSIVE recordMatches(_, _, _)
recordMatches(seen, matches, runAt) ==
  IF matches = << >> THEN seen
  ELSE LET m == Head(matches)
       IN  recordMatches(markSeen(seen, m.listing.source, m.productId,
                                  m.listing.sourceId, newEntry(seen, m, runAt)),
                         Tail(matches), runAt)

\* lines 261-265
seenThisRunByMarket(rawListings, market) ==
  {rawListings[i].sourceId :
     i \in {j \in 1..Len(rawListings) : rawListings[j].source = market}}

\* missEntry marking the entry sold at the second miss
missEntryAtTwo(entry, runAt) ==
  LET missed == entry.missedRuns + 1
  IN  [entry EXCEPT !.missedRuns = missed,
                    !.soldAt = IF missed >= 2 THEN Some(runAt) ELSE @]

\* lines 273-287 for one entry
missEntry(entry, runAt) ==
  LET missed == entry.missedRuns + 1
  IN  [entry EXCEPT !.missedRuns = missed,
                    !.soldAt = IF missed >= SoldThreshold THEN Some(runAt) ELSE @]

\* trackMarket without the negation of line 277
trackMarketSeen(seen, market, productId, rawListings, runAt) ==
  LET seenThisRun == seenThisRunByMarket(rawListings, market)
  IN  [k \in Keys |->
         IF /\ k[1] = market /\ k[2] = productId
            /\ IsSome(seen[k])
            /\ ~ IsSome(Val(seen[k]).soldAt)
            /\ k[3] \in seenThisRun
         THEN Some(missEntry(Val(seen[k]), runAt))
         ELSE seen[k]]

\* trackMarket without the skip of line 275
trackMarketCountingSold(seen, market, productId, rawListings, runAt) ==
  LET seenThisRun == seenThisRunByMarket(rawListings, market)
  IN  [k \in Keys |->
         IF /\ k[1] = market /\ k[2] = productId
            /\ IsSome(seen[k])
            /\ k[3] \notin seenThisRun
         THEN Some(missEntry(Val(seen[k]), runAt))
         ELSE seen[k]]

\* lines 268-287 for one marketplace of the product
trackMarket(seen, market, productId, rawListings, runAt) ==
  LET seenThisRun == seenThisRunByMarket(rawListings, market)
  IN  [k \in Keys |->
         IF /\ k[1] = market /\ k[2] = productId
            /\ IsSome(seen[k])
            /\ ~ IsSome(Val(seen[k]).soldAt)
            /\ k[3] \notin seenThisRun
         THEN Some(missEntry(Val(seen[k]), runAt))
         ELSE seen[k]]

\* lines 267-288
RECURSIVE trackSold(_, _, _, _, _)
trackSold(seen, marketplaces, productId, rawListings, runAt) ==
  IF marketplaces = << >> THEN seen
  ELSE trackSold(trackMarket(seen, Head(marketplaces), productId, rawListings, runAt),
                 Tail(marketplaces), productId, rawListings, runAt)


(***************************************************************************)
(* Calls of the functions of core/match.ts: the titles, the terms, the     *)
(* rules and the listings they are called with.                            *)
(***************************************************************************)
caseTitle == <<"S", "y", "n", "t", "h", " ", " ", "C", "A", "S", "E">>
rolandCaseTitle ==
  <<"R", "o", "l", "a", "n", "d", " ", "S", "y", "n", "t", "h", " ", "C", "a", "s", "e">>
deckTitle ==
  <<"T", "a", "p", "e", " ", "D", "e", "c", "k", " ", "S", "y", "n", "t", "h">>
knobTitle == <<"S", "y", "n", "t", "h", " ", "K", "n", "o", "b">>
junoTitle == <<"J", "u", "n", "o", "-", "6">>
tapeTitle == <<"R", "o", "l", "a", "n", "d", "\t", "T", "a", "p", "e">>
plainTitle == <<"S", "Y", "N", "T", "H", " ", "8">>

Titles ==
  {synthTitle, caseTitle, rolandCaseTitle, deckTitle, knobTitle, junoTitle,
   tapeTitle, plainTitle}

tapeTerm == <<"t", "a", "p", "e">>
junoTerm == <<"J", "U", "N", "O">>
emptyTerm == << >>
\* /juno-\d/
junoDigitTerm == <<"/", "j", "u", "n", "o", "-", "\\", "d", "/">>
\* /(syn)th/
groupTerm == <<"/", "(", "s", "y", "n", ")", "t", "h", "/">>
\* /synth/y
stickyTerm == <<"/", "s", "y", "n", "t", "h", "/", "y">>
\* /(synth/
unclosedTerm == <<"/", "(", "s", "y", "n", "t", "h", "/">>
\* /synth)/
unopenedTerm == <<"/", "s", "y", "n", "t", "h", ")", "/">>
\* /SYNTH/gg
twiceFlagTerm == <<"/", "S", "Y", "N", "T", "H", "/", "g", "g">>
\* /roland\/
danglingTerm == <<"/", "r", "o", "l", "a", "n", "d", "\\", "/">>

rule(include, exclude, min) ==
  [id |-> "p1", minPriceUsd |-> min, maxPriceUsd |-> 500,
   marketplaces |-> <<"ebay">>,
   includeTerms |-> include, excludeTerms |-> exclude]

Rules ==
  {rule(<<synthTerm>>, << >>, None),
   rule(<< >>, << >>, None),
   rule(<<tapeTerm, junoDigitTerm>>, << >>, None),
   rule(<<unclosedTerm, junoTerm>>, << >>, None),
   rule(<<unclosedTerm>>, << >>, None),
   rule(<< >>, <<unopenedTerm, tapeTerm>>, None),
   rule(<<emptyTerm>>, <<junoTerm>>, None),
   rule(<<twiceFlagTerm>>, <<danglingTerm>>, None),
   rule(<<stickyTerm>>, << >>, None),
   rule(<<groupTerm>>, <<twiceFlagTerm>>, None)}

Shippings ==
  {None,
   Some([amount |-> 20, known |-> Some(TRUE)]),
   Some([amount |-> 20, known |-> None]),
   Some([amount |-> 20, known |-> Some(FALSE)]),
   Some([amount |-> 0, known |-> Some(FALSE)])}

Policies == {[includeShippingInThreshold |-> b] : b \in BOOLEAN}

offer(id, title, amount, currency, shipping) ==
  [source |-> "ebay", sourceId |-> id, title |-> title,
   price |-> [amount |-> amount, currency |-> currency],
   shipping |-> shipping]

USD == <<"U", "S", "D">>
EUR == <<"E", "U", "R">>

\* the listings filterMatches is called with
Pool ==
  {offer("A", synthTitle, amount, USD, shipping) :
     amount \in {400, 480, 500},
     shipping \in {None, Some([amount |-> 20, known |-> Some(TRUE)]),
                   Some([amount |-> 20, known |-> Some(FALSE)])}}
    \cup {offer("A", synthTitle, 400, EUR, None), offer("A", knobTitle, 400, USD, None)}

TitleCalls == [fn : {"titlePasses"}, product : Rules, title : Titles]

PriceCalls ==
  [fn : {"computeEffectivePriceUsd"},
   listing : {offer("A", synthTitle, 400, USD, shipping) : shipping \in Shippings},
   settings : Policies]

FilterCalls ==
  [fn : {"filterMatches"},
   product : {rule(<<synthTerm>>, << >>, min) : min \in {None, Some(420)}},
   listings : {<<a>> : a \in Pool}
                \cup {<<a, [b EXCEPT !.sourceId = "B"]>> :
                        a \in Pool, b \in {x \in Pool : x.shipping # None}},
   settings : Policies]

\* the lifecycle entries the batch of a product is computed against
entryAt(price) ==
  [firstSeenAt |-> 1, lastSeenAt |-> 1, lastEffectivePrice |-> price,
   missedRuns |-> 0, soldAt |-> None]

ReconcileCalls ==
  [fn : {"reconcile"},
   product : {rule(<<synthTerm>>, << >>, None)},
   listings : {<<offer("A", synthTitle, a, USD, None),
                 offer("B", synthTitle, b, USD, None),
                 offer("C", synthTitle, c, USD, None)>> :
                 a \in {320, 400, 600}, b \in {320, 400, 600}, c \in {320, 400}},
   settings : {settings},
   seen : {[k \in Keys |-> IF k[1] = "ebay" /\ k[2] = "p1" THEN g[k[3]] ELSE None] :
             g \in [ListingIds -> {None, Some(entryAt(400))}]}]

Calls == TitleCalls \cup PriceCalls \cup FilterCalls \cup ReconcileCalls

\* the listings calculateMarketStats is called with: the four of the
\* scenario, one a unit dearer than the cheapest, one in EUR, and one whose
\* currency is written in lower case and that ships for 20
quote(url, amount, currency, shipping) ==
  [source |-> "ebay", sourceId |-> url, url |-> url, title |-> synthTitle,
   price |-> [amount |-> amount, currency |-> currency], shipping |-> shipping]

Quotes ==
  {quote("u1", 100, USD, None), quote("u2", 200, USD, None),
   quote("u3", 300, USD, None), quote("u4", 400, USD, None),
   quote("u5", 101, USD, None), quote("u6", 150, EUR, None),
   quote("u7", 90, <<"u", "s", "d">>, Some([amount |-> 20, known |-> Some(TRUE)]))}

StatsCalls ==
  [fn : {"calculateMarketStats"},
   listings : UNION {[1..n -> Quotes] : n \in 0..MaxListed},
   settings : Policies]

(***************************************************************************)
(* The state.  Procs are the processes that may execute main(); the        *)
(* scheduler of Spec starts one run at a time.                             *)
(***************************************************************************)
Procs == {1, 2}

VARIABLES
  watchlist,    \* which watchlist config/watchlist.yml holds
  interval,     \* days between two runs of the schedule
  clock,        \* wall clock, in days
  runsStarted,  \* number of runs started so far
  stateFile,    \* data/state.json
  historyFile,  \* data/history.json
  pc,           \* per process: where main() stands
  runAt,        \* per process: main's runAt
  state,        \* per process: main's in-memory state
  errors,       \* per process: main's errors
  productIdx,   \* per process: index of the product being processed
  marketIdx,    \* per process: index of the marketplace queried next
  rawListings,  \* per process: rawListings of the current product
  matches,      \* per process: matches of the current product
  fresh,        \* per process: the notification batch of the current product
  totalAlerts,  \* per process: main's totalAlerts
  byProduct,    \* per process: main's byProduct
  outcomes,     \* per process: how each query of the run ended (history variable)
  streak,       \* per process: absentStreak as the run in flight updates it
  absentStreak, \* per listing: the consecutive completed runs that did not find it
                \* in the raw results (history variable, kept with the state file)
  failStreak,   \* per marketplace and product: the consecutive runs, up to the
                \* last one started, in which its query failed (history variable)
  notified,     \* per listing: the effective prices of the alerts delivered for
                \* it (history variable)
  readDoc,      \* per process: the state document main() read (history variable)
  call,         \* a call of a function on its own: its name and arguments
  ret,          \* what the call returned or threw, None while it is in progress
  step,         \* where a call of retry or of sendDiscordAlerts stands
  attempt,      \* retry: attempt
  lastErr,      \* retry: lastErr, None while undefined
  fnLog,        \* retry: how each call of fn ended, in order
  timer,        \* retry: the delay of the pending setTimeout, None without one
  chunks,       \* sendDiscordAlerts: chunks
  cursor,       \* sendDiscordAlerts: i of the loop of line 38
  sent,         \* sendDiscordAlerts: sent
  posted        \* the messages the webhook has received, in order

vars == <<watchlist, interval, clock, runsStarted, stateFile, historyFile, pc, runAt,
          state, errors, productIdx, marketIdx, rawListings, matches, fresh,
          totalAlerts, byProduct, outcomes, streak, absentStreak, failStreak,
          notified, readDoc, call, ret,
          step, attempt, lastErr, fnLog, timer, chunks, cursor, sent, posted>>

files == <<stateFile, historyFile>>
locals == <<runAt, state, errors, productIdx, marketIdx, rawListings, matches,
            fresh, totalAlerts, byProduct, outcomes, streak>>

retryVars == <<attempt, lastErr, fnLog, timer>>
discordVars == <<chunks, cursor, sent, posted>>
aside == <<step, retryVars, discordVars>>

\* no function is being called on its own
noCall == [fn |-> "none"]

\* retry and sendDiscordAlerts before their first statement
NotCalled ==
  /\ step = "start"
  /\ attempt = 0
  /\ lastErr = None
  /\ fnLog = << >>
  /\ timer = None
  /\ chunks = << >>
  /\ cursor = 0
  /\ sent = 0
  /\ posted = << >>

\* no process has started main()
NoRun ==
  /\ pc = [r \in Procs |-> "idle"]
  /\ runAt = [r \in Procs |-> 0]
  /\ state = [r \in Procs |-> emptyStateFile]
  /\ errors = [r \in Procs |-> << >>]
  /\ productIdx = [r \in Procs |-> 1]
  /\ marketIdx = [r \in Procs |-> 1]
  /\ rawListings = [r \in Procs |-> << >>]
  /\ matches = [r \in Procs |-> << >>]
  /\ fresh = [r \in Procs |-> << >>]
  /\ totalAlerts = [r \in Procs |-> 0]
  /\ byProduct = [r \in Procs |-> << >>]
  /\ outcomes = [r \in Procs |-> {}]
  /\ streak = [r \in Procs |-> [k \in Keys |-> 0]]
  /\ failStreak = [q \in Markets \X ProductIds |-> 0]
  /\ notified = [k \in Keys |-> {}]
  /\ readDoc = [r \in Procs |-> emptyStateFile]

Init ==
  /\ watchlist \in Watchlists
  /\ interval \in {ShortGap, LongGap}
  /\ clock = 0
  /\ runsStarted = 0
  /\ stateFile = emptyStateFile
  /\ historyFile = << >>
  /\ absentStreak = [k \in Keys |-> 0]
  /\ NoRun
  /\ call = noCall
  /\ ret = None
  /\ NotCalled

product(r) == products(watchlist)[productIdx[r]]
market(r) == product(r).marketplaces[marketIdx[r]]
Stopped(r) == pc[r] \in {"idle", "done", "failed"}

\* lines 171-184: a process starts main()
StartRun(r) ==
  /\ Stopped(r)
  /\ runsStarted < RunLimit(watchlist)
  /\ clock' = clock + interval
  /\ runsStarted' = runsStarted + 1
  /\ runAt' = [runAt EXCEPT ![r] = clock']
  /\ state' = [state EXCEPT ![r] = readState(stateFile)]
  /\ readDoc' = [readDoc EXCEPT ![r] = readState(stateFile)]
  /\ errors' = [errors EXCEPT ![r] = << >>]
  /\ productIdx' = [productIdx EXCEPT ![r] = 1]
  /\ marketIdx' = [marketIdx EXCEPT ![r] = 1]
  /\ rawListings' = [rawListings EXCEPT ![r] = << >>]
  /\ matches' = [matches EXCEPT ![r] = << >>]
  /\ fresh' = [fresh EXCEPT ![r] = << >>]
  /\ totalAlerts' = [totalAlerts EXCEPT ![r] = 0]
  /\ byProduct' = [byProduct EXCEPT ![r] = << >>]
  /\ outcomes' = [outcomes EXCEPT ![r] = {}]
  /\ streak' = [streak EXCEPT ![r] = absentStreak]
  /\ failStreak' = [q \in Markets \X ProductIds |->
                       IF <<q[1], q[2], "failed">> \in outcomes[r] THEN failStreak[q] ELSE 0]
  /\ pc' = [pc EXCEPT ![r] = IF products(watchlist) = << >> THEN "cleanup" ELSE "search"]
  /\ UNCHANGED <<call, ret, aside, notified, watchlist, interval, files, absentStreak>>

\* the loop of lines 191-210 moves to the next marketplace, or leaves
nextMarket(r) ==
  IF marketIdx[r] < Len(product(r).marketplaces)
  THEN /\ marketIdx' = [marketIdx EXCEPT ![r] = @ + 1]
       /\ pc' = pc
  ELSE /\ marketIdx' = marketIdx
       /\ pc' = [pc EXCEPT ![r] = "reconcile"]

\* lines 192-200
NoAdapter(r) ==
  /\ pc[r] = "search"
  /\ market(r) \notin Adapters
  /\ errors' = [errors EXCEPT ![r] =
                  Append(@, [marketplace |-> market(r), productId |-> product(r).id,
                             message |-> "No adapter"])]
  /\ outcomes' = [outcomes EXCEPT ![r] = @ \cup {<<market(r), product(r).id, "no adapter">>}]
  /\ nextMarket(r)
  /\ UNCHANGED <<call, ret, aside, readDoc, failStreak, notified, watchlist, interval, clock, runsStarted, files, runAt, state, productIdx,
                 rawListings, matches, fresh, totalAlerts, byProduct, streak, absentStreak>>

\* lines 202-205: the adapter answers
SearchOk(r) ==
  /\ pc[r] = "search"
  /\ market(r) \in Adapters
  /\ \E f \in Picks(watchlist, market(r), product(r).id) :
        rawListings' = [rawListings EXCEPT ![r] = @ \o searchResult(market(r), f)]
  /\ outcomes' = [outcomes EXCEPT ![r] = @ \cup {<<market(r), product(r).id, "answered">>}]
  /\ failStreak' = [failStreak EXCEPT ![<<market(r), product(r).id>>] = 0]
  /\ nextMarket(r)
  /\ UNCHANGED <<call, ret, aside, readDoc, notified, watchlist, interval, clock, runsStarted, files, runAt, state, errors,
                 productIdx, matches, fresh, totalAlerts, byProduct, streak, absentStreak>>

\* SearchFail leaving the loop over the marketplaces of the product
SearchFailBreak(r) ==
  /\ pc[r] = "search"
  /\ market(r) \in Adapters
  /\ errors' = [errors EXCEPT ![r] =
                  Append(@, [marketplace |-> market(r), productId |-> product(r).id,
                             message |-> "adapter error"])]
  /\ outcomes' = [outcomes EXCEPT ![r] = @ \cup {<<market(r), product(r).id, "failed">>}]
  /\ failStreak' = [failStreak EXCEPT ![<<market(r), product(r).id>>] = @ + 1]
  /\ marketIdx' = marketIdx
  /\ pc' = [pc EXCEPT ![r] = "reconcile"]
  /\ UNCHANGED <<call, ret, aside, readDoc, notified, watchlist, interval, clock, runsStarted, files, runAt, state, productIdx,
                 rawListings, matches, fresh, totalAlerts, byProduct, streak, absentStreak>>

\* lines 206-209: the adapter throws
SearchFail(r) ==
  /\ pc[r] = "search"
  /\ market(r) \in Adapters
  /\ errors' = [errors EXCEPT ![r] =
                  Append(@, [marketplace |-> market(r), productId |-> product(r).id,
                             message |-> "adapter error"])]
  /\ outcomes' = [outcomes EXCEPT ![r] = @ \cup {<<market(r), product(r).id, "failed">>}]
  /\ failStreak' = [failStreak EXCEPT ![<<market(r), product(r).id>>] = @ + 1]
  /\ nextMarket(r)
  /\ UNCHANGED <<call, ret, aside, readDoc, notified, watchlist, interval, clock, runsStarted, files, runAt, state, productIdx,
                 rawListings, matches, fresh, totalAlerts, byProduct, streak, absentStreak>>

\* lines 212-288: filter, de-dupe, record the sightings, track sold items
Reconcile(r) ==
  /\ pc[r] = "reconcile"
  /\ LET ms == filterMatches(product(r), rawListings[r], settings)
         seen == state[r].seen
         recorded == recordMatches(seen, ms, runAt[r])
     IN  /\ matches' = [matches EXCEPT ![r] = ms]
         /\ fresh' = [fresh EXCEPT ![r] = dedupe(seen, ms)]
         /\ state' = [state EXCEPT ![r].seen =
                        trackSold(recorded, product(r).marketplaces, product(r).id,
                                  rawListings[r], runAt[r])]
         /\ streak' = [streak EXCEPT ![r] =
              [k \in Keys |->
                 IF k[2] = product(r).id /\ k[1] \in SeqToSet(product(r).marketplaces)
                 THEN IF k[3] \notin seenThisRunByMarket(rawListings[r], k[1])
                         /\ IsSome(recorded[k])
                      THEN streak[r][k] + 1
                      ELSE 0
                 ELSE streak[r][k]]]
  /\ pc' = [pc EXCEPT ![r] = "alert"]
  /\ UNCHANGED <<call, ret, aside, readDoc, failStreak, notified, watchlist, interval, clock, runsStarted, files, runAt, errors, productIdx,
                 marketIdx, rawListings, totalAlerts, byProduct, outcomes, absentStreak>>

\* lines 299-311: the product's result bundle, then the next product
nextProduct(r) ==
  /\ byProduct' = [byProduct EXCEPT ![r] =
                     Append(@, [productId |-> product(r).id,
                                scanned |-> Len(rawListings[r]),
                                matches |-> matches[r]])]
  /\ rawListings' = [rawListings EXCEPT ![r] = << >>]
  /\ matches' = [matches EXCEPT ![r] = << >>]
  /\ fresh' = [fresh EXCEPT ![r] = << >>]
  /\ marketIdx' = [marketIdx EXCEPT ![r] = 1]
  /\ IF productIdx[r] < Len(products(watchlist))
     THEN /\ productIdx' = [productIdx EXCEPT ![r] = @ + 1]
          /\ pc' = [pc EXCEPT ![r] = "search"]
     ELSE /\ productIdx' = productIdx
          /\ pc' = [pc EXCEPT ![r] = "cleanup"]

\* lines 291-294: sendDiscordAlerts delivers the batch
NotifyOk(r) ==
  /\ pc[r] = "alert"
  /\ fresh[r] # << >>
  /\ totalAlerts' = [totalAlerts EXCEPT ![r] = @ + Len(fresh[r])]
  /\ notified' = [k \in Keys |->
                     notified[k] \cup {fresh[r][i].effectivePriceUsd :
                                         i \in {j \in 1..Len(fresh[r]) : keyOf(fresh[r][j]) = k}}]
  /\ nextProduct(r)
  /\ UNCHANGED <<call, ret, aside, readDoc, failStreak, watchlist, interval, clock, runsStarted, files, runAt, state, errors,
                 outcomes, streak, absentStreak>>

\* line 292 throws; lines 341-344: the process exits with status 1
NotifyFail(r) ==
  /\ pc[r] = "alert"
  /\ fresh[r] # << >>
  /\ pc' = [pc EXCEPT ![r] = "failed"]
  /\ UNCHANGED <<call, ret, aside, readDoc, failStreak, notified, watchlist, interval, clock, runsStarted, files, locals, absentStreak>>

\* lines 295-297
NoAlerts(r) ==
  /\ pc[r] = "alert"
  /\ fresh[r] = << >>
  /\ nextProduct(r)
  /\ UNCHANGED <<call, ret, aside, readDoc, failStreak, notified, watchlist, interval, clock, runsStarted, files, runAt, state, errors,
                 totalAlerts, outcomes, streak, absentStreak>>

\* lines 313-319
Cleanup(r) ==
  /\ pc[r] = "cleanup"
  /\ state' = [state EXCEPT ![r] =
                 [updatedAt |-> Some(runAt[r]),
                  seen |-> cleanupOldSoldItems(state[r].seen, clock).seen]]
  /\ pc' = [pc EXCEPT ![r] = "write"]
  /\ UNCHANGED <<call, ret, aside, readDoc, failStreak, notified, watchlist, interval, clock, runsStarted, files, runAt, errors, productIdx,
                 marketIdx, rawListings, matches, fresh, totalAlerts, byProduct,
                 outcomes, streak, absentStreak>>

\* WriteState placed before the sweep of lines 313-319
WriteStateBeforeSweep(r) ==
  /\ pc[r] = "cleanup"
  /\ stateFile' = state[r]
  /\ absentStreak' = [k \in Keys |-> IF IsSome(state[r].seen[k]) THEN streak[r][k] ELSE 0]
  /\ pc' = [pc EXCEPT ![r] = "append"]
  /\ UNCHANGED <<call, ret, aside, readDoc, failStreak, notified, watchlist, interval, clock, runsStarted, historyFile, locals>>

\* WriteState keeping what another run has written since this one read
WriteStateMerged(r) ==
  /\ pc[r] = "write"
  /\ stateFile' =
        [state[r] EXCEPT !.seen =
           [k \in Keys |-> IF state[r].seen[k] = readDoc[r].seen[k]
                            THEN stateFile.seen[k] ELSE state[r].seen[k]]]
  /\ absentStreak' = [k \in Keys |-> IF IsSome(state[r].seen[k]) THEN streak[r][k] ELSE 0]
  /\ pc' = [pc EXCEPT ![r] = "append"]
  /\ UNCHANGED <<call, ret, aside, readDoc, failStreak, notified, watchlist, interval, clock, runsStarted, historyFile, locals>>

\* line 320
WriteState(r) ==
  /\ pc[r] = "write"
  /\ stateFile' = state[r]
  /\ absentStreak' = [k \in Keys |-> IF IsSome(state[r].seen[k]) THEN streak[r][k] ELSE 0]
  /\ pc' = [pc EXCEPT ![r] = "append"]
  /\ UNCHANGED <<call, ret, aside, readDoc, failStreak, notified, watchlist, interval, clock, runsStarted, historyFile, locals>>

\* lines 322-334
AppendHistory(r) ==
  /\ pc[r] = "append"
  /\ historyFile' = appendHistory(historyFile,
                                  [runAt |-> runAt[r], alerts |-> totalAlerts[r],
                                   errors |-> errors[r]])
  /\ pc' = [pc EXCEPT ![r] = "done"]
  /\ UNCHANGED <<call, ret, aside, readDoc, failStreak, notified, watchlist, interval, clock, runsStarted, stateFile, locals, absentStreak>>

runVars == <<watchlist, interval, clock, runsStarted, files, pc, locals, absentStreak,
             failStreak, notified, readDoc>>

\* match.ts 160-184 called and returning
CallTitlePasses ==
  /\ call.fn = "titlePasses"
  /\ ret = None
  /\ ret' = Some(titlePasses(call.product, call.title))
  /\ UNCHANGED <<call, aside, runVars>>

\* match.ts 216-235 called and returning
CallComputeEffectivePriceUsd ==
  /\ call.fn = "computeEffectivePriceUsd"
  /\ ret = None
  /\ ret' = Some(computeEffectivePriceUsd(call.listing, call.settings))
  /\ UNCHANGED <<call, aside, runVars>>

\* match.ts 262-296 called and returning
CallFilterMatches ==
  /\ call.fn = "filterMatches"
  /\ ret = None
  /\ ret' = Some(filterMatches(call.product, call.listings, call.settings))
  /\ UNCHANGED <<call, aside, runVars>>

\* run.ts 215-241: the Matches of a product and the batch made of them
CallReconcile ==
  /\ call.fn = "reconcile"
  /\ ret = None
  /\ LET ms == filterMatches(call.product, call.listings, call.settings)
     IN  ret' = Some([matches |-> ms, fresh |-> dedupe(call.seen, ms)])
  /\ UNCHANGED <<call, aside, runVars>>

\* run.ts 68-140 called and returning
CallCalculateMarketStats ==
  /\ call.fn = "calculateMarketStats"
  /\ ret = None
  /\ ret' = Some(calculateMarketStats(call.listings, call.settings))
  /\ UNCHANGED <<call, aside, runVars>>

(***************************************************************************)
(* core/retry.ts: retry(fn, opts) called on its own.  fn resolves or       *)
(* rejects; what it does is not retry's code, so each call of fn ends      *)
(* either way.                                                             *)
(***************************************************************************)
Delays == {10, 50, 500}
Resolved == {"a"}
Rejected == {"e1", "e2"}

RetryCalls == [fn : {"retry"}, retries : -1..MaxRetries, baseDelayMs : Delays]

RECURSIVE pow(_, _)
\* Math.pow(b, n) for a natural n
pow(b, n) == IF n = 0 THEN 1 ELSE b * pow(b, n - 1)

\* line 71: the condition of the for loop
looping == call.fn = "retry" /\ step = "start" /\ attempt <= call.retries

\* lines 71-73: fn() resolves and retry returns its result
FnResolves ==
  /\ looping
  /\ \E v \in Resolved :
        /\ fnLog' = Append(fnLog, [ok |-> TRUE, value |-> v])
        /\ ret' = Some([threw |-> FALSE, value |-> Some(v)])
  /\ step' = "returned"
  /\ UNCHANGED <<call, attempt, lastErr, timer, discordVars, runVars>>

\* FnRejects keeping the first error in lastErr
FnRejectsKeepingFirst ==
  /\ looping
  /\ \E e \in Rejected :
        LET err == IF lastErr = None THEN Some(e) ELSE lastErr
        IN  /\ fnLog' = Append(fnLog, [ok |-> FALSE, value |-> e])
            /\ lastErr' = err
            /\ IF attempt >= call.retries
               THEN /\ ret' = Some([threw |-> TRUE, value |-> err])
                    /\ step' = "threw"
                    /\ timer' = timer
               ELSE /\ timer' = Some(call.baseDelayMs * pow(2, attempt))
                    /\ step' = "sleeping"
                    /\ ret' = ret
  /\ UNCHANGED <<call, attempt, discordVars, runVars>>

\* lines 74-81 and 84: fn() rejects; after the last attempt retry throws
\* lastErr, before it the timer of the backoff is set
FnRejects ==
  /\ looping
  /\ \E e \in Rejected :
        /\ fnLog' = Append(fnLog, [ok |-> FALSE, value |-> e])
        /\ lastErr' = Some(e)
        /\ IF attempt >= call.retries
           THEN /\ ret' = Some([threw |-> TRUE, value |-> Some(e)])
                /\ step' = "threw"
                /\ timer' = timer
           ELSE /\ timer' = Some(call.baseDelayMs * pow(2, attempt))
                /\ step' = "sleeping"
                /\ ret' = ret
  /\ UNCHANGED <<call, attempt, discordVars, runVars>>

\* line 81 and the attempt++ of line 71: the timer fires
TimerFires ==
  /\ call.fn = "retry"
  /\ step = "sleeping"
  /\ timer' = None
  /\ attempt' = attempt + 1
  /\ step' = "start"
  /\ UNCHANGED <<call, ret, lastErr, fnLog, discordVars, runVars>>

\* lines 71 and 84: the loop is not entered and lastErr is thrown as it is
RetryFallsThrough ==
  /\ call.fn = "retry"
  /\ step = "start"
  /\ ~ (attempt <= call.retries)
  /\ ret' = Some([threw |-> TRUE, value |-> lastErr])
  /\ step' = "threw"
  /\ UNCHANGED <<call, retryVars, discordVars, runVars>>

(***************************************************************************)
(* notify/discord.ts: sendDiscordAlerts called on its own.  A Match is     *)
(* its position in the batch; a message is the list of the Matches its     *)
(* embeds are made of, one embed per Match (line 48).                      *)
(***************************************************************************)
\* settings.maxEmbedsPerDiscordMessage of config/watchlist.yml, which
\* loadConfig does not validate; None when the key is missing
Limits == {None, Some(0), Some(1), Some(3)}

DiscordCalls ==
  [fn : {"sendDiscordAlerts"},
   matches : {[i \in 1..n |-> i] : n \in 0..MaxBatch},
   maxEmbedsPerDiscordMessage : Limits,
   webhook : BOOLEAN]

\* line 34
maxEmbeds ==
  IF IsSome(call.maxEmbedsPerDiscordMessage) THEN Val(call.maxEmbedsPerDiscordMessage) ELSE 10

\* Array.prototype.slice(from, to) for 0 <= from <= to
slice(arr, from, to) ==
  SubSeq(arr, from + 1, IF to < Len(arr) THEN to ELSE Len(arr))

\* lines 29-30
MissingWebhook ==
  /\ call.fn = "sendDiscordAlerts"
  /\ step = "start"
  /\ ~ call.webhook
  /\ ret' = Some([threw |-> TRUE, value |-> None])
  /\ step' = "threw"
  /\ UNCHANGED <<call, retryVars, discordVars, runVars>>

\* line 32
EmptyBatch ==
  /\ call.fn = "sendDiscordAlerts"
  /\ step = "start"
  /\ call.webhook
  /\ call.matches = << >>
  /\ ret' = Some([threw |-> FALSE, value |-> Some(0)])
  /\ step' = "returned"
  /\ UNCHANGED <<call, retryVars, discordVars, runVars>>

\* lines 38-40: one pass of the loop that builds the chunks.  The model
\* follows the loop until it has built one chunk more than the batch has
\* Matches.
ChunkNext ==
  /\ call.fn = "sendDiscordAlerts"
  /\ \/ step = "start" /\ call.webhook /\ call.matches # << >>
     \/ step = "chunking"
  /\ cursor < Len(call.matches)
  /\ Len(chunks) <= Len(call.matches)
  /\ chunks' = Append(chunks, slice(call.matches, cursor, cursor + maxEmbeds))
  /\ cursor' = cursor + maxEmbeds
  /\ step' = "chunking"
  /\ UNCHANGED <<call, ret, retryVars, sent, posted, runVars>>

\* the chunks are built and chunk number Len(posted) + 1 is the next to post
posting ==
  /\ call.fn = "sendDiscordAlerts"
  /\ \/ step = "chunking" /\ ~ (cursor < Len(call.matches))
     \/ step = "posting"
  /\ Len(posted) < Len(chunks)

\* lines 44-121: the webhook accepts the message of the next chunk
PostAccepted ==
  /\ posting
  /\ LET chunk == chunks[Len(posted) + 1]
     IN  /\ posted' = Append(posted, [embeds |-> chunk, ok |-> TRUE])
         /\ sent' = sent + Len(chunk)
  /\ step' = "posting"
  /\ UNCHANGED <<call, ret, retryVars, chunks, cursor, runVars>>

\* lines 109-119: the webhook answers the message of the next chunk with a
\* status that is not ok
PostRejected ==
  /\ posting
  /\ posted' = Append(posted, [embeds |-> chunks[Len(posted) + 1], ok |-> FALSE])
  /\ ret' = Some([threw |-> TRUE, value |-> None])
  /\ step' = "threw"
  /\ UNCHANGED <<call, retryVars, chunks, cursor, sent, runVars>>

\* line 124
ReturnSent ==
  /\ call.fn = "sendDiscordAlerts"
  /\ step = "posting"
  /\ Len(posted) = Len(chunks)
  /\ ret' = Some([threw |-> FALSE, value |-> Some(sent)])
  /\ step' = "returned"
  /\ UNCHANGED <<call, retryVars, discordVars, runVars>>

\* the scheduler keeps at most one run in flight
Sequential == {1}

Next ==
  \E r \in Sequential :
     \/ StartRun(r)
     \/ NoAdapter(r)
     \/ SearchOk(r)
     \/ SearchFail(r)
     \/ Reconcile(r)
     \/ NotifyOk(r)
     \/ NotifyFail(r)
     \/ NoAlerts(r)
     \/ Cleanup(r)
     \/ WriteState(r)
     \/ AppendHistory(r)

\* no scheduler: a process starts main() whatever the others are doing
NextOverlap ==
  \E r \in Procs :
     \/ StartRun(r)
     \/ NoAdapter(r)
     \/ SearchOk(r)
     \/ SearchFail(r)
     \/ Reconcile(r)
     \/ NotifyOk(r)
     \/ NotifyFail(r)
     \/ NoAlerts(r)
     \/ Cleanup(r)
     \/ WriteState(r)
     \/ AppendHistory(r)

Spec == Init /\ [][Next]_vars

\* the same program on one watchlist
InitSolo == Init /\ watchlist = "solo"
InitTrio == Init /\ watchlist = "trio"
InitMulti == Init /\ watchlist = "multi"
SpecSolo == InitSolo /\ [][Next]_vars
SpecTrio == InitTrio /\ [][Next]_vars
SpecMulti == InitMulti /\ [][Next]_vars
InitDuo == Init /\ watchlist = "duo" /\ interval = ShortGap
InitTwin == Init /\ watchlist = "twin" /\ interval = ShortGap
SpecDuo == InitDuo /\ [][Next]_vars
SpecTwin == InitTwin /\ [][Next]_vars


\* the functions of core/match.ts called on their own
InitMatch ==
  /\ watchlist = "solo"
  /\ interval = ShortGap
  /\ clock = 0
  /\ runsStarted = 0
  /\ stateFile = emptyStateFile
  /\ historyFile = << >>
  /\ absentStreak = [k \in Keys |-> 0]
  /\ NoRun
  /\ call \in Calls
  /\ ret = None
  /\ NotCalled

NextMatch ==
  \/ CallTitlePasses
  \/ CallComputeEffectivePriceUsd
  \/ CallFilterMatches
  \/ CallReconcile

SpecMatch == InitMatch /\ [][NextMatch]_vars

\* the last two runs of the "solo" watchlist, started without scheduler, find
\* the state file as it is before the first run
InitOverlap ==
  /\ watchlist = "solo"
  /\ interval = ShortGap
  /\ clock = 0
  /\ runsStarted = RunLimit(watchlist) - 2
  /\ stateFile = emptyStateFile
  /\ historyFile = << >>
  /\ absentStreak = [k \in Keys |-> 0]
  /\ NoRun
  /\ call = noCall
  /\ ret = None
  /\ NotCalled

SpecOverlap == InitOverlap /\ [][NextOverlap]_vars

\* calculateMarketStats called on its own
InitStats ==
  /\ watchlist = "solo"
  /\ interval = ShortGap
  /\ clock = 0
  /\ runsStarted = 0
  /\ stateFile = emptyStateFile
  /\ historyFile = << >>
  /\ absentStreak = [k \in Keys |-> 0]
  /\ NoRun
  /\ call \in StatsCalls
  /\ ret = None
  /\ NotCalled

NextStats == CallCalculateMarketStats

SpecStats == InitStats /\ [][NextStats]_vars

\* retry called on its own
InitRetry ==
  /\ watchlist = "solo"
  /\ interval = ShortGap
  /\ clock = 0
  /\ runsStarted = 0
  /\ stateFile = emptyStateFile
  /\ historyFile = << >>
  /\ absentStreak = [k \in Keys |-> 0]
  /\ NoRun
  /\ call \in RetryCalls
  /\ ret = None
  /\ NotCalled

NextRetry ==
  \/ FnResolves
  \/ FnRejects
  \/ TimerFires
  \/ RetryFallsThrough

SpecRetry == InitRetry /\ [][NextRetry]_vars

\* every call of fn settles and the event loop fires the timer that is set
FairRetry == SpecRetry /\ WF_vars(NextRetry)

\* sendDiscordAlerts called on its own
InitDiscord ==
  /\ watchlist = "solo"
  /\ interval = ShortGap
  /\ clock = 0
  /\ runsStarted = 0
  /\ stateFile = emptyStateFile
  /\ historyFile = << >>
  /\ absentStreak = [k \in Keys |-> 0]
  /\ NoRun
  /\ call \in DiscordCalls
  /\ ret = None
  /\ NotCalled

NextDiscord ==
  \/ MissingWebhook
  \/ EmptyBatch
  \/ ChunkNext
  \/ PostAccepted
  \/ PostRejected
  \/ ReturnSent

SpecDiscord == InitDiscord /\ [][NextDiscord]_vars

\* the loops of sendDiscordAlerts run on and the webhook answers every
\* message
FairDiscord == SpecDiscord /\ WF_vars(NextDiscord)

\* A state file left by earlier runs of the "multi" watchlist: each listing
\* the watchlist queries has no entry, an entry missed twice, or an entry
\* marked sold the day before, on, or the day after the cutoff of the next
\* run of the daily schedule.
SweepEdge == SweepStart + ShortGap - SOLD_RETENTION_DAYS

soldEntry(t) ==
  [firstSeenAt |-> t - SoldThreshold, lastSeenAt |-> t - SoldThreshold,
   lastEffectivePrice |-> 400, missedRuns |-> SoldThreshold, soldAt |-> Some(t)]

missedTwiceEntry ==
  [firstSeenAt |-> SweepStart - 2, lastSeenAt |-> SweepStart - 2,
   lastEffectivePrice |-> 400, missedRuns |-> 2, soldAt |-> None]

StoredEntries ==
  {None, Some(missedTwiceEntry)}
    \cup {Some(soldEntry(t)) : t \in {SweepEdge - 1, SweepEdge, SweepEdge + 1}}

StockedKeys == {<<"ebay", "p1", "A">>, <<"reverb", "p1", "A">>, <<"ebay", "p2", "A">>}

StockedStateFiles ==
  {[updatedAt |-> Some(SweepStart),
    seen |-> [k \in Keys |-> IF k \in StockedKeys THEN g[k] ELSE None]] :
     g \in [StockedKeys -> StoredEntries]}

\* the last run of the schedule finds such a state file
InitSweep ==
  /\ watchlist = "multi"
  /\ interval \in {ShortGap, LongGap}
  /\ clock = SweepStart
  /\ runsStarted = RunLimit(watchlist) - 1
  /\ stateFile \in StockedStateFiles
  /\ historyFile = << >>
  /\ absentStreak = [k \in Keys |-> IF IsSome(stateFile.seen[k])
                                     THEN Val(stateFile.seen[k]).missedRuns ELSE 0]
  /\ NoRun
  /\ call = noCall
  /\ ret = None
  /\ NotCalled

SpecSweep == InitSweep /\ [][Next]_vars

(***************************************************************************)
(* Properties.  While a run of Spec is in flight the state file still      *)
(* holds what the previous runs stored: it is written at the end of a run. *)
(***************************************************************************)
stored(m) == stateFile.seen[keyOf(m)]
recorded(r, m) == state[r].seen[keyOf(m)]

C2_PriceDropAnnotation ==
  \A r \in Procs :
     pc[r] = "alert" =>
        \A m \in SeqToSet(fresh[r]) :
           IF IsSome(stored(m)) /\ m.effectivePriceUsd < Val(stored(m)).lastEffectivePrice
           THEN m.priceDrop =
                  Some([previousPrice |-> Val(stored(m)).lastEffectivePrice,
                        dropAmount |-> Val(stored(m)).lastEffectivePrice
                                         - m.effectivePriceUsd])
           ELSE m.priceDrop = None /\ ~ IsSome(stored(m))

\* stored 400, new 320: previous = 400, drop = 80
C2_Witness ==
  \E r \in Procs :
     /\ pc[r] = "alert"
     /\ \E m \in SeqToSet(fresh[r]) :
           /\ IsSome(stored(m))
           /\ Val(stored(m)).lastEffectivePrice = 400
           /\ m.effectivePriceUsd = 320
           /\ m.priceDrop = Some([previousPrice |-> 400, dropAmount |-> 80])

\* C3: a Match without stored entry is New: it is in the batch, without
\* annotation, and the entry recorded for it has firstSeenAt = lastSeenAt =
\* the run timestamp, missedRuns = 0, no soldAt and the Match's effective
\* price; the entry is persisted like that.
C3_NewCreatesEntry ==
  \A r \in Procs :
     /\ pc[r] = "alert" =>
           \A m \in SeqToSet(matches[r]) :
              ~ IsSome(stored(m)) =>
                 /\ \E i \in 1..Len(fresh[r]) : fresh[r][i] = m
                 /\ recorded(r, m) =
                      Some([firstSeenAt |-> runAt[r], lastSeenAt |-> runAt[r],
                            lastEffectivePrice |-> m.effectivePriceUsd,
                            missedRuns |-> 0, soldAt |-> None])
     /\ pc[r] = "done" =>
           \A k \in Keys :
              (IsSome(stateFile.seen[k]) /\ Val(stateFile.seen[k]).firstSeenAt = runAt[r])
                 => /\ Val(stateFile.seen[k]).lastSeenAt = runAt[r]
                    /\ Val(stateFile.seen[k]).missedRuns = 0
                    /\ Val(stateFile.seen[k]).soldAt = None

C3_Witness ==
  \E r \in Procs :
     /\ pc[r] = "alert"
     /\ \E m \in SeqToSet(matches[r]) : ~ IsSome(stored(m))

\* C4: once soldAt is set on a stored entry, a later state of the state file
\* either has no entry for the listing (the sweep deleted it) or has the
\* same soldAt.
C4_SoldAtWriteOnce ==
  [][\A k \in Keys :
        (IsSome(stateFile.seen[k]) /\ IsSome(Val(stateFile.seen[k]).soldAt))
           => \/ ~ IsSome(stateFile'.seen[k])
              \/ Val(stateFile'.seen[k]).soldAt = Val(stateFile.seen[k]).soldAt]_vars

\* C5: a persisted entry has soldAt only if its missedRuns is at least 3; an
\* unsold entry that a run misses has its counter incremented by one, is
\* still unsold when the counter is 1 or 2, and is stamped with that run's
\* timestamp when the counter becomes 3.
C5_SoldOnlyAtThirdMiss ==
  /\ \A k \in Keys :
        (IsSome(stateFile.seen[k]) /\ IsSome(Val(stateFile.seen[k]).soldAt))
           => Val(stateFile.seen[k]).missedRuns >= 3
  /\ \A r \in Procs :
        pc[r] = "alert" =>
           \A k \in Keys :
              (/\ k[2] = product(r).id
               /\ k[1] \in SeqToSet(product(r).marketplaces)
               /\ IsSome(stateFile.seen[k])
               /\ ~ IsSome(Val(stateFile.seen[k]).soldAt)
               /\ k[3] \notin seenThisRunByMarket(rawListings[r], k[1]))
                 => LET old == Val(stateFile.seen[k])
                        new == Val(state[r].seen[k])
                    IN  /\ new.missedRuns = old.missedRuns + 1
                        /\ new.missedRuns < 3 => new.soldAt = None
                        /\ new.missedRuns = 3 => new.soldAt = Some(runAt[r])
                        /\ new.missedRuns <= 3

\* the third miss of an entry, persisted
C5_Witness ==
  \E k \in Keys :
     /\ IsSome(stateFile.seen[k])
     /\ Val(stateFile.seen[k]).missedRuns = 3
     /\ IsSome(stateFile.seen[k][1].soldAt)
     /\ Val(stateFile.seen[k]).soldAt = stateFile.updatedAt
     /\ Val(Val(stateFile.seen[k]).soldAt) = Val(stateFile.seen[k]).lastSeenAt + 3 * interval

\* C6: soldAt is stamped in a run only if that run and the two completed runs
\* before it did not find the listing in the raw results of its
\* marketplace/product.
C6_SoldOnlyAfterThreeConsecutiveAbsences ==
  \A r \in Procs :
     pc[r] = "alert" =>
        \A k \in Keys :
           (IsSome(state[r].seen[k]) /\ Val(state[r].seen[k]).soldAt = Some(runAt[r]))
              => streak[r][k] >= 3

\* C7: entries A, B, C of one marketplace/product, unsold after the previous
\* run; this run observes A and C and not B: B's missedRuns is one more than
\* before, A's and C's are 0.
C7_MissedRunsOfABC ==
  \A r \in Procs :
     pc[r] = "alert" =>
        \A a, b, c \in Keys :
           (/\ a # b /\ b # c /\ a # c
            /\ \A k \in {a, b, c} :
                  /\ k[1] = a[1] /\ k[2] = product(r).id
                  /\ k[1] \in SeqToSet(product(r).marketplaces)
                  /\ IsSome(stateFile.seen[k])
                  /\ ~ IsSome(Val(stateFile.seen[k]).soldAt)
            /\ a[3] \in seenThisRunByMarket(rawListings[r], a[1])
            /\ c[3] \in seenThisRunByMarket(rawListings[r], a[1])
            /\ b[3] \notin seenThisRunByMarket(rawListings[r], a[1]))
              => /\ Val(state[r].seen[b]).missedRuns = Val(stateFile.seen[b]).missedRuns + 1
                 /\ Val(state[r].seen[a]).missedRuns = 0
                 /\ Val(state[r].seen[c]).missedRuns = 0

\* C8: when the notification of a batch fails and the run ends with that
\* failure, the state file has nevertheless been written by that run, with
\* the sightings the run recorded.
C8_StateWrittenDespiteNotificationFailure ==
  \A r \in Procs :
     pc[r] = "failed" =>
        /\ stateFile.updatedAt = Some(runAt[r])
        /\ \A m \in SeqToSet(matches[r]) : stored(m) = recorded(r, m)

\* the queries of the products before the i-th, and the first j of the i-th
queriesUpTo(i, j) ==
  UNION {{<<products(watchlist)[x].marketplaces[y], products(watchlist)[x].id>> :
            y \in 1..(IF x < i THEN Len(products(watchlist)[x].marketplaces) ELSE j)} :
         x \in 1..i}

\* C9: every query that fails (or has no adapter) leaves exactly one error
\* entry with its marketplace and product; the run goes on: all marketplaces
\* of the product and all products are processed, and a run stops without
\* being persisted only at the notification of a batch; a run that is done
\* has written the state file and appended its summary with those errors.
C9_SearchFailureDoesNotAbort ==
  \A r \in Procs :
     LET bad == {o \in outcomes[r] : o[3] # "answered"}
         done(i, j) == {<<o[1], o[2]>> : o \in outcomes[r]} = queriesUpTo(i, j)
         last == Len(products(watchlist))
     IN  /\ Len(errors[r]) = Cardinality(bad)
         /\ \A o \in bad :
               \E i \in 1..Len(errors[r]) :
                  /\ errors[r][i].marketplace = o[1]
                  /\ errors[r][i].productId = o[2]
                  /\ errors[r][i].message =
                       (IF o[3] = "failed" THEN "adapter error" ELSE "No adapter")
         /\ Cardinality(outcomes[r]) = Cardinality({<<o[1], o[2]>> : o \in outcomes[r]})
         /\ pc[r] = "search" => done(productIdx[r], marketIdx[r] - 1)
         /\ pc[r] \in {"reconcile", "alert"} =>
               done(productIdx[r], Len(product(r).marketplaces))
         /\ pc[r] = "failed" => fresh[r] # << >>
         /\ pc[r] \in {"cleanup", "write", "append", "done"} =>
               /\ done(last, Len(products(watchlist)[last].marketplaces))
               /\ Len(byProduct[r]) = last
         /\ pc[r] = "done" =>
               /\ stateFile.updatedAt = Some(runAt[r])
               /\ historyFile # << >>
               /\ historyFile[Len(historyFile)].runAt = runAt[r]
               /\ historyFile[Len(historyFile)].errors = errors[r]

\* a run that is done although the first marketplace of its first product
\* failed and the next one answered
C9_Witness ==
  \E r \in Procs :
     /\ pc[r] = "done"
     /\ <<"ebay", "p1", "failed">> \in outcomes[r]
     /\ <<"reverb", "p1", "answered">> \in outcomes[r]
     /\ <<"etsy", "p2", "no adapter">> \in outcomes[r]
     /\ Len(errors[r]) = 2
     /\ byProduct[r][1].scanned = 1

C11_UnchangedIsIdempotent ==
  /\ \A k \in Keys :
        IsSome(stateFile.seen[k]) =>
           Val(stateFile.seen[k]).firstSeenAt <= Val(stateFile.seen[k]).lastSeenAt
  /\ \A r \in Procs :
        /\ \A k \in Keys :
              IsSome(state[r].seen[k]) =>
                 /\ Val(state[r].seen[k]).firstSeenAt <= Val(state[r].seen[k]).lastSeenAt
                 /\ (pc[r] # "idle" /\ IsSome(stateFile.seen[k])) =>
                       Val(state[r].seen[k]).firstSeenAt
                         = Val(stateFile.seen[k]).firstSeenAt
        /\ pc[r] = "alert" =>
              \A m \in SeqToSet(matches[r]) :
                 (/\ IsSome(stored(m))
                  /\ m.effectivePriceUsd = Val(stored(m)).lastEffectivePrice)
                    => /\ ~ \E f \in SeqToSet(fresh[r]) : keyOf(f) = keyOf(m)
                       /\ dedupe(state[r].seen, <<m>>) = << >>
                       /\ newEntry(state[r].seen, m, runAt[r]).firstSeenAt
                            = Val(stored(m)).firstSeenAt

\* the second Unchanged sighting in a row of a listing first seen two runs
\* before the last one
C11_Witness ==
  \E r \in Procs :
     /\ pc[r] = "alert"
     /\ fresh[r] = << >>
     /\ \E m \in SeqToSet(matches[r]) :
           /\ IsSome(stored(m))
           /\ m.effectivePriceUsd = Val(stored(m)).lastEffectivePrice
           /\ Val(stored(m)).firstSeenAt < Val(stored(m)).lastSeenAt
           /\ Val(stored(m)).lastSeenAt < runAt[r]
           /\ Val(recorded(r, m)).firstSeenAt = Val(stored(m)).firstSeenAt
           /\ Val(recorded(r, m)).lastSeenAt = runAt[r]

\* C12: the sweep of a run deletes exactly the entries whose soldAt is earlier
\* than now minus SOLD_RETENTION_DAYS, whatever their marketplace and
\* product, and leaves every other entry as it was; the number it returns is
\* the number of entries deleted; an entry marked sold by the run itself is
\* not deleted by it.
C12_SweepDeletesExactlyExpiredSold ==
  [][\A r \in Procs :
        (pc[r] = "cleanup" /\ pc'[r] = "write") =>
           LET before == state[r].seen
               after == state'[r].seen
               expired == {k \in Keys :
                             /\ IsSome(before[k])
                             /\ IsSome(Val(before[k]).soldAt)
                             /\ Val(Val(before[k]).soldAt) < clock - SOLD_RETENTION_DAYS}
           IN  /\ \A k \in expired : after[k] = None
               /\ \A k \in Keys \ expired : after[k] = before[k]
               /\ cleanupOldSoldItems(before, clock).removed = Cardinality(expired)
               /\ \A k \in Keys :
                     (IsSome(before[k]) /\ Val(before[k]).soldAt = Some(runAt[r]))
                        => after[k] = before[k]]_vars

\* after the sweep: an entry sold before the cutoff is gone, one sold exactly
\* at the cutoff and one marked sold by this run are kept
C12_Witness ==
  \E r \in Procs :
     /\ pc[r] = "write"
     /\ \E k1, k2, k3 \in Keys :
           /\ IsSome(stateFile.seen[k1])
           /\ IsSome(Val(stateFile.seen[k1]).soldAt)
           /\ Val(Val(stateFile.seen[k1]).soldAt) < clock - SOLD_RETENTION_DAYS
           /\ state[r].seen[k1] = None
           /\ IsSome(stateFile.seen[k2])
           /\ Val(stateFile.seen[k2]).soldAt = Some(clock - SOLD_RETENTION_DAYS)
           /\ state[r].seen[k2] = stateFile.seen[k2]
           /\ IsSome(state[r].seen[k3])
           /\ Val(state[r].seen[k3]).soldAt = Some(runAt[r])

\* an entry of the run's state that the step counts as missed
missedBy(r, k) ==
  /\ IsSome(state[r].seen[k])
  /\ IsSome(state'[r].seen[k])
  /\ Val(state'[r].seen[k]).missedRuns > Val(state[r].seen[k]).missedRuns

\* the sold entries of a state that the sweep at time now deletes
expiredAt(seen, now) ==
  {k \in Keys : /\ IsSome(seen[k])
                /\ IsSome(Val(seen[k]).soldAt)
                /\ Val(Val(seen[k]).soldAt) < now - SOLD_RETENTION_DAYS}

\* the state file is written from a swept state; the summary is appended
\* when the state file has been written by the same run
persistedInOrder ==
  /\ stateFile' # stateFile =>
        \E r \in Procs :
           /\ pc[r] = "write"
           /\ Len(byProduct[r]) = Len(products(watchlist))
           /\ stateFile' = state[r]
           /\ stateFile'.updatedAt = Some(runAt[r])
           /\ expiredAt(stateFile'.seen, clock) = {}
  /\ historyFile' # historyFile =>
        \E r \in Procs :
           /\ pc[r] = "append"
           /\ stateFile = state[r]
           /\ stateFile.updatedAt = Some(runAt[r])
           /\ historyFile'[Len(historyFile')].runAt = runAt[r]

\* the sweep comes after the loop over the products
sweptAfterProducts ==
  \A r \in Procs :
     (pc[r] = "cleanup" /\ pc'[r] = "write") =>
        /\ Len(byProduct[r]) = Len(products(watchlist))
        /\ state'[r].seen = cleanupOldSoldItems(state[r].seen, clock).seen

\* C13 (as stated): a step of a run counts entries as missed or marks them
\* sold only when every product has been searched, matched and reconciled;
\* the sweep comes after that, the state file is written after the sweep
\* and the summary is appended after the state file is written.
C13_StepsOrdered ==
  [][/\ \A r \in Procs :
           (\E k \in Keys : missedBy(r, k)) =>
              /\ productIdx[r] = Len(products(watchlist))
              /\ pc[r] = "reconcile"
     /\ sweptAfterProducts
     /\ persistedInOrder]_vars

\* C13 (amended): the entries of a product are counted as missed or marked
\* sold in the step that matches and reconciles that product, before the
\* next product is searched; the sweep comes after the last product, the
\* state file is written after the sweep and the summary is appended after
\* the state file is written.
C13_StepsOrderedPerProduct ==
  [][/\ \A r \in Procs :
           \A k \in Keys :
              missedBy(r, k) =>
                 /\ pc[r] = "reconcile"
                 /\ k[2] = product(r).id
                 /\ matches'[r] = filterMatches(product(r), rawListings[r], settings)
                 /\ fresh'[r] = dedupe(state[r].seen, matches'[r])
     /\ sweptAfterProducts
     /\ persistedInOrder]_vars

\* a run about to write the state file: it marked an entry of the first
\* product sold, then found a Match of the second product, then swept an
\* expired entry
C13_Witness ==
  \E r \in Procs :
     /\ pc[r] = "write"
     /\ Len(products(watchlist)) = 2
     /\ byProduct[r][2].matches # << >>
     /\ \E k \in Keys :
           /\ k[2] = products(watchlist)[1].id
           /\ IsSome(stateFile.seen[k])
           /\ Val(stateFile.seen[k]).soldAt = None
           /\ IsSome(state[r].seen[k])
           /\ Val(state[r].seen[k]).soldAt = Some(runAt[r])
     /\ \E k \in expiredAt(stateFile.seen, clock) : state[r].seen[k] = None

\* a call of the named function that has returned
returned(fn) == call.fn = fn /\ IsSome(ret)

ascending(ms) ==
  \A i \in 1..(Len(ms) - 1) : ms[i].effectivePriceUsd <= ms[i + 1].effectivePriceUsd

RECURSIVE isSubsequence(_, _)
\* the Matches of a, without their price-drop annotation, occur in b in the
\* same order
isSubsequence(a, b) ==
  IF a = << >> THEN TRUE
  ELSE IF b = << >> THEN FALSE
  ELSE IF [Head(a) EXCEPT !.priceDrop = None] = Head(b)
       THEN isSubsequence(Tail(a), Tail(b))
       ELSE isSubsequence(a, Tail(b))

\* C14: the Matches filterMatches returns are in non-decreasing order of
\* effective price; the batch made of a product's Matches is a subsequence
\* of them: not longer, and in the same best-price-first order.
C14_BatchIsSortedSubsequence ==
  /\ returned("filterMatches") => ascending(Val(ret))
  /\ returned("reconcile") =>
        /\ ascending(Val(ret).matches)
        /\ isSubsequence(Val(ret).fresh, Val(ret).matches)
        /\ Len(Val(ret).fresh) <= Len(Val(ret).matches)
        /\ ascending(Val(ret).fresh)

\* listings A, B, C arrive with B the cheapest; A is Unchanged, B a PriceDrop
\* and C New: the Matches are B, A, C and the batch is B, C
C14_Witness ==
  /\ returned("reconcile")
  /\ [i \in 1..3 |-> call.listings[i].sourceId] = <<"A", "B", "C">>
  /\ Len(Val(ret).matches) = 3
  /\ [i \in 1..3 |-> Val(ret).matches[i].listing.sourceId] = <<"B", "A", "C">>
  /\ [i \in 1..3 |-> Val(ret).matches[i].effectivePriceUsd] = <<320, 400, 400>>
  /\ Len(Val(ret).fresh) = 2
  /\ Val(ret).fresh[1].listing.sourceId = "B"
  /\ IsSome(Val(ret).fresh[1].priceDrop)
  /\ Val(ret).fresh[2].listing.sourceId = "C"
  /\ Val(ret).fresh[2].priceDrop = None

\* the effective price of a listing whose shipping, if any, is marked
statedPrice(l, policy) ==
  IF /\ policy.includeShippingInThreshold
     /\ IsSome(l.shipping)
     /\ Val(l.shipping).known = Some(TRUE)
  THEN l.price.amount + Val(l.shipping).amount
  ELSE l.price.amount

\* the listing of the scenarios: "Roland Synth-8" with known shipping of 20
scenarioCall(amount) ==
  [fn |-> "filterMatches",
   product |-> rule(<<synthTerm>>, << >>, None),
   listings |-> <<offer("A", synthTitle, amount, USD,
                        Some([amount |-> 20, known |-> Some(TRUE)]))>>,
   settings |-> [includeShippingInThreshold |-> TRUE]]

\* C15: filterMatches returns one Match for each listing whose title passes,
\* whose currency is USD and whose effective price p has p >= minimum (when
\* a minimum is set) and p <= maximum, and nothing else; 400 + 20 under a
\* maximum of 500 gives one Match at 420, 500 + 20 gives none.
C15_FilterKeepsWithinBounds ==
  returned("filterMatches") =>
     LET rule_ == call.product
         out == Val(ret)
         p(l) == statedPrice(l, call.settings)
         kept(l) == /\ titlePasses(rule_, l.title)
                    /\ l.price.currency = USD
                    /\ (IsSome(rule_.minPriceUsd) => p(l) >= Val(rule_.minPriceUsd))
                    /\ p(l) <= rule_.maxPriceUsd
     IN  /\ Len(out) = Cardinality({i \in 1..Len(call.listings) : kept(call.listings[i])})
         /\ \A i \in 1..Len(call.listings) :
               kept(call.listings[i]) <=>
                  \E j \in 1..Len(out) : out[j].listing = call.listings[i]
         /\ \A j \in 1..Len(out) : out[j].effectivePriceUsd = p(out[j].listing)
         /\ call = scenarioCall(400) =>
               Len(out) = 1 /\ out[1].effectivePriceUsd = 420
         /\ call = scenarioCall(500) => out = << >>

\* a minimum of 420 and a maximum of 500: the listings at 480 + 20 and at
\* 400 + 20 are both kept
C15_Witness ==
  /\ returned("filterMatches")
  /\ call.product.minPriceUsd = Some(420)
  /\ call.settings.includeShippingInThreshold
  /\ Len(call.listings) = 2
  /\ Len(Val(ret)) = 2
  /\ Val(ret)[1].effectivePriceUsd = 420
  /\ Val(ret)[1].listing.price.amount = 400
  /\ Val(ret)[2].effectivePriceUsd = call.product.maxPriceUsd
  /\ Val(ret)[2].listing.price.amount = 480

\* C16: computeEffectivePriceUsd returns the listed price when shipping does
\* not count; when it counts, price + shipping for shipping that is present
\* and marked known, and the listed price with a caveat for shipping that
\* is absent or marked unknown.
C16_EffectivePriceByPolicy ==
  returned("computeEffectivePriceUsd") =>
     LET l == call.listing
         r == Val(ret)
     IN  IF ~ call.settings.includeShippingInThreshold
         THEN r.effective = l.price.amount
         ELSE /\ (IsSome(l.shipping) /\ Val(l.shipping).known = Some(TRUE)) =>
                    r.effective = l.price.amount + Val(l.shipping).amount
              /\ (l.shipping = None \/ Val(l.shipping).known = Some(FALSE)) =>
                    /\ r.effective = l.price.amount
                    /\ IsSome(r.shippingNote)

\* shipping of 20 marked unknown, counted toward the threshold: the price
\* stays 400 and the result has the caveat
C16_Witness ==
  /\ returned("computeEffectivePriceUsd")
  /\ call.settings.includeShippingInThreshold
  /\ call.listing.shipping = Some([amount |-> 20, known |-> Some(FALSE)])
  /\ Val(ret).effective = 400
  /\ IsSome(Val(ret).shippingNote)

unknownWord == <<"u", "n", "k", "n", "o", "w", "n">>

\* C17 (as stated): for a listing whose shipping is marked known = false,
\* under either shipping policy, the effective price is the listed amount
\* and the result has a non-empty caveat that contains "unknown".
C17_UnknownShippingAlwaysNoted ==
  (/\ returned("computeEffectivePriceUsd")
   /\ IsSome(call.listing.shipping)
   /\ Val(call.listing.shipping).known = Some(FALSE))
     => /\ Val(ret).effective = call.listing.price.amount
        /\ IsSome(Val(ret).shippingNote)
        /\ Val(Val(ret).shippingNote) # << >>
        /\ includes(Val(Val(ret).shippingNote), unknownWord)

\* C17 (amended): for a listing whose shipping is marked known = false the
\* effective price is the listed amount under either policy; when shipping
\* counts toward the threshold the result has a non-empty caveat that
\* contains "unknown", and when it does not count the result has no caveat.
C17_UnknownShippingNotedWhenCounted ==
  (/\ returned("computeEffectivePriceUsd")
   /\ IsSome(call.listing.shipping)
   /\ Val(call.listing.shipping).known = Some(FALSE))
     => /\ Val(ret).effective = call.listing.price.amount
        /\ IF call.settings.includeShippingInThreshold
           THEN /\ IsSome(Val(ret).shippingNote)
                /\ Val(Val(ret).shippingNote) # << >>
                /\ includes(Val(Val(ret).shippingNote), unknownWord)
           ELSE Val(ret).shippingNote = None

\* free shipping marked unknown, counted toward the threshold
C17_Witness ==
  /\ returned("computeEffectivePriceUsd")
  /\ call.settings.includeShippingInThreshold
  /\ call.listing.shipping = Some([amount |-> 0, known |-> Some(FALSE)])
  /\ Val(ret).effective = call.listing.price.amount
  /\ Val(ret).shippingNote = Some(shippingUnknownNote)

\* the normalized title satisfies the term
satisfies(title, term) == matchesTerm(norm(title), term)

\* the accessory/brand heuristic of lines 179-181 rejects the title
looksLikeAccessory(title) ==
  /\ \E w \in SeqToSet(accessoryWords) : includes(norm(title), w)
  /\ ~ includes(norm(title), brandToken)

\* C18: a title that titlePasses accepts satisfies at least one include
\* term, unless the rule has none, and satisfies no exclude term, of the
\* rule or of the built-in list; for a rule without include terms the
\* result is: no exclude term satisfied and not rejected by the
\* accessory/brand heuristic.
C18_TitlePassesIncludeExclude ==
  returned("titlePasses") =>
     LET include == SeqToSet(call.product.includeTerms)
         exclude == SeqToSet(call.product.excludeTerms) \cup SeqToSet(DEFAULT_EXCLUDES)
         excluded == \E term \in exclude : satisfies(call.title, term)
     IN  /\ Val(ret) =>
               /\ include = {} \/ \E term \in include : satisfies(call.title, term)
               /\ ~ excluded
         /\ include = {} =>
               Val(ret) = (~ excluded /\ ~ looksLikeAccessory(call.title))

\* "Juno-6" under the include terms tape and /juno-\d/: accepted through the
\* second term alone
C18_Witness ==
  /\ returned("titlePasses")
  /\ call.product.includeTerms = <<tapeTerm, junoDigitTerm>>
  /\ call.title = junoTitle
  /\ ~ satisfies(call.title, tapeTerm)
  /\ Val(ret) = TRUE

\* the terms in /pattern/flags syntax for which new RegExp throws: an
\* unterminated group, an unmatched ")", a flag given twice, a pattern
\* ending in a backslash
uncompilable == {unclosedTerm, unopenedTerm, twiceFlagTerm, danglingTerm}

\* C19: a term in /pattern/flags syntax that does not compile matches no
\* title, and titlePasses returns the boolean that the other terms of the
\* rule give: some other include term satisfied (when the rule has include
\* terms), no other exclude term satisfied, not rejected by the heuristic.
C19_InvalidRegexNeverMatches ==
  returned("titlePasses") =>
     LET include == {x \in SeqToSet(call.product.includeTerms) : x # << >>}
         exclude == SeqToSet(call.product.excludeTerms) \cup SeqToSet(DEFAULT_EXCLUDES)
     IN  /\ Val(ret) \in BOOLEAN
         /\ \A bad \in uncompilable :
               /\ isRegexPattern(bad)
               /\ \A title \in Titles : ~ satisfies(title, bad)
         /\ Val(ret) =
              (/\ include # {} =>
                     \E term \in include \ uncompilable : satisfies(call.title, term)
               /\ ~ \E term \in exclude \ uncompilable : satisfies(call.title, term)
               /\ ~ looksLikeAccessory(call.title))

\* "Juno-6" under the include terms /(synth/ and JUNO: accepted through the
\* literal term although the first term does not compile
C19_Witness ==
  /\ returned("titlePasses")
  /\ call.product.includeTerms = <<unclosedTerm, junoTerm>>
  /\ call.title = junoTitle
  /\ parseRegex(unclosedTerm) = None
  /\ Val(ret) = TRUE

\* the title satisfies the include terms and none of the exclude terms
passesTerms(aRule, title) ==
  LET include == {x \in SeqToSet(aRule.includeTerms) : x # << >>}
      exclude == SeqToSet(aRule.excludeTerms) \cup SeqToSet(DEFAULT_EXCLUDES)
  IN  /\ include # {} => \E term \in include : satisfies(title, term)
      /\ ~ \E term \in exclude : satisfies(title, term)

\* case, cover, decksaver, overlay, template
fiveWords ==
  {<<"c", "a", "s", "e">>,
   <<"c", "o", "v", "e", "r">>,
   <<"d", "e", "c", "k", "s", "a", "v", "e", "r">>,
   <<"o", "v", "e", "r", "l", "a", "y">>,
   <<"t", "e", "m", "p", "l", "a", "t", "e">>}

deckWord == <<"d", "e", "c", "k">>

\* C20 (as stated): a title that passes the include and exclude terms is
\* rejected exactly when it contains one of the five words case, cover,
\* decksaver, overlay, template and does not contain "roland".
C20_AccessoryHeuristicFiveWords ==
  (returned("titlePasses") /\ passesTerms(call.product, call.title)) =>
     Val(ret) = ~ (/\ \E w \in fiveWords : includes(norm(call.title), w)
                   /\ ~ includes(norm(call.title), brandToken))

\* C20 (amended): a title that passes the include and exclude terms is
\* rejected exactly when its normalized text contains one of the six words
\* case, cover, deck, decksaver, overlay, template and does not contain
\* "roland".
C20_AccessoryHeuristicSixWords ==
  (returned("titlePasses") /\ passesTerms(call.product, call.title)) =>
     Val(ret) = ~ (/\ \E w \in fiveWords \cup {deckWord} : includes(norm(call.title), w)
                   /\ ~ includes(norm(call.title), brandToken))

\* "Synth  CASE" is rejected and "Roland Synth Case" accepted by the same
\* rule, whose terms both titles pass
C20_Witness ==
  /\ returned("titlePasses")
  /\ passesTerms(call.product, caseTitle)
  /\ passesTerms(call.product, rolandCaseTitle)
  /\ \/ call.title = caseTitle /\ Val(ret) = FALSE
     \/ call.title = rolandCaseTitle /\ Val(ret) = TRUE


\* the effective prices of the USD listings calculateMarketStats was called
\* with, in the order of the call
usdPrices ==
  LET usd == SelectSeq(call.listings,
                       LAMBDA l : l.price.currency \in {USD, <<"u", "s", "d">>})
  IN  [i \in 1..Len(usd) |-> statedPrice(usd[i], call.settings)]

\* the k-th smallest of the prices ps
kth(ps, k) ==
  CHOOSE v \in {ps[i] : i \in 1..Len(ps)} :
     /\ Cardinality({i \in 1..Len(ps) : ps[i] < v}) < k
     /\ Cardinality({i \in 1..Len(ps) : ps[i] <= v}) >= k

\* twice the median of the prices ps
twiceMedian(ps) ==
  IF Len(ps) % 2 = 1
  THEN 2 * kth(ps, (Len(ps) + 1) \div 2)
  ELSE kth(ps, Len(ps) \div 2) + kth(ps, Len(ps) \div 2 + 1)

abs(x) == IF x < 0 THEN 0 - x ELSE x

scenarioStats ==
  <<quote("u1", 100, USD, None), quote("u2", 200, USD, None),
    quote("u3", 300, USD, None), quote("u4", 400, USD, None)>>

\* count, min and max of a non-empty set of USD listings, and the scenario
statsCountMinMax ==
  LET ps == usdPrices
      r == Val(ret)
  IN  /\ r.count = Len(ps)
      /\ r.minPrice = Some(kth(ps, 1))
      /\ r.maxPrice = Some(kth(ps, Len(ps)))
      /\ call.listings = scenarioStats =>
            /\ r.minPrice = Some(100) /\ r.maxPrice = Some(400)
            /\ r.avgPrice = Some(25000) /\ r.medianPrice = Some(25000)

\* C21 as stated: for a non-empty set of USD listings the statistics report
\* count, min and max of the effective prices, avg = their arithmetic mean
\* and median = the middle value or the mean of the two middle values.
C21_StatsExact ==
  (returned("calculateMarketStats") /\ usdPrices # << >>) =>
     /\ statsCountMinMax
     /\ Val(Val(ret).avgPrice) * Len(usdPrices) = 100 * sumOf(usdPrices)
     /\ 2 * Val(Val(ret).medianPrice) = 100 * twiceMedian(usdPrices)

\* C21: for a non-empty set of USD listings the statistics report count, min
\* and max of the effective prices, and avg and median as the arithmetic
\* mean and the even/odd median rounded to two decimal places: a whole
\* number of hundredths at most half a hundredth away; [100,200,300,400]
\* gives min=100, max=400, avg=250, median=250.
C21_StatsRounded ==
  (returned("calculateMarketStats") /\ usdPrices # << >>) =>
     /\ statsCountMinMax
     /\ 2 * abs(Val(Val(ret).avgPrice) * Len(usdPrices) - 100 * sumOf(usdPrices))
           <= Len(usdPrices)
     /\ 2 * abs(2 * Val(Val(ret).medianPrice) - 100 * twiceMedian(usdPrices)) <= 2

\* prices 100, 101, 100 and a listing in EUR: count 3, the mean 100.333...
\* is reported as 100.33 and the median as 100
C21_Witness ==
  /\ returned("calculateMarketStats")
  /\ Len(call.listings) = 4
  /\ Len(usdPrices) = 3
  /\ sumOf(usdPrices) = 301
  /\ Val(ret).count = 3
  /\ Val(ret).avgPrice = Some(10033)
  /\ Val(ret).medianPrice = Some(10000)


\* C22: calculateMarketStats called with no listing, or with listings none
\* of which is in USD, returns count 0, null for min, max, average and
\* median, and no sample.
C22_EmptyStatsAreNull ==
  (returned("calculateMarketStats") /\ usdPrices = << >>) =>
     /\ Val(ret).count = 0
     /\ Val(ret).minPrice = None /\ Val(ret).maxPrice = None
     /\ Val(ret).avgPrice = None /\ Val(ret).medianPrice = None
     /\ Val(ret).samples = << >>

\* two listings, both in EUR
C22_Witness ==
  /\ returned("calculateMarketStats")
  /\ Len(call.listings) = 2
  /\ \A i \in 1..2 : call.listings[i].price.currency = EUR
  /\ Val(ret).count = 0
  /\ Val(ret).samples = << >>


\* C23: the history file changes only when a run completes, and then by one
\* record added after the records it held, which stay as they were and where
\* they were; a run that completes adds exactly one record, its own.
C23_HistoryAppendOnly ==
  [][/\ historyFile' # historyFile =>
           \E r \in Procs : pc[r] = "append" /\ pc'[r] = "done"
     /\ \A r \in Procs :
           (pc[r] # "done" /\ pc'[r] = "done") =>
              /\ Len(historyFile') = Len(historyFile) + 1
              /\ SubSeq(historyFile', 1, Len(historyFile)) = historyFile
              /\ historyFile'[Len(historyFile')].runAt = runAt[r]
              /\ \A i \in 1..Len(historyFile) : historyFile[i].runAt # runAt[r]]_vars

\* the third run to complete has added its record after the two of the runs
\* before it, one of which alerted
C23_Witness ==
  \E r \in Procs :
     /\ pc[r] = "done"
     /\ Len(historyFile) = 3
     /\ historyFile[3].runAt = runAt[r]
     /\ historyFile[1].runAt < historyFile[2].runAt
     /\ historyFile[1].alerts = 1


\* the calls of fn that failed
failures == {i \in 1..Len(fnLog) : ~ fnLog[i].ok}

\* retry has returned or thrown
settled == step \in {"returned", "threw"}

\* what C24 says of every state of a call of retry
retryBounded ==
  /\ Len(fnLog) <= call.retries + 1
  /\ \A i \in 1..Len(fnLog) : fnLog[i].ok => i = Len(fnLog)
  /\ (fnLog # << >> /\ fnLog[Len(fnLog)].ok) <=> step = "returned"
  /\ step = "returned" =>
        ret = Some([threw |-> FALSE, value |-> Some(fnLog[Len(fnLog)].value)])
  /\ (fnLog # << >> /\ Len(fnLog) = call.retries + 1 /\ failures = 1..Len(fnLog))
        => step = "threw"
  /\ step = "threw" =>
        /\ failures = 1..Len(fnLog)
        /\ Len(fnLog) = IF call.retries < 0 THEN 0 ELSE call.retries + 1
  /\ (step = "threw" /\ fnLog # << >>) =>
        ret = Some([threw |-> TRUE, value |-> Some(fnLog[Len(fnLog)].value)])
  /\ settled <=> IsSome(ret)

\* C24: retry(fn, {retries: r}) calls fn at most r + 1 times; the first call
\* that succeeds is the last one and retry returns its result; when r + 1
\* calls have failed retry throws the error of the last of them; and every
\* call of retry returns or throws.
C24_RetryBoundedAndTerminates ==
  /\ [](call.fn = "retry" => retryBounded)
  /\ <>(call.fn = "retry" => settled)

\* retries: 2 and three failing calls, the first with another error than the
\* last, whose error is thrown
C24_Witness ==
  /\ call.fn = "retry"
  /\ call.retries = 2
  /\ step = "threw"
  /\ Len(fnLog) = 3
  /\ fnLog[1].value = "e1"
  /\ fnLog[3].value = "e2"
  /\ ret = Some([threw |-> TRUE, value |-> Some("e2")])


RECURSIVE flat(_)
\* the chunks cs laid end to end
flat(cs) == IF cs = << >> THEN << >> ELSE Head(cs) \o flat(Tail(cs))

\* the limit in force: the configured one, 10 without one
limitInForce ==
  IF call.maxEmbedsPerDiscordMessage = None THEN 10
  ELSE Val(call.maxEmbedsPerDiscordMessage)

\* what C25 says of every state of a call of sendDiscordAlerts with the
\* webhook configured
chunkedDelivery ==
  /\ \A i \in 1..Len(chunks) : Len(chunks[i]) <= limitInForce
  /\ posted # << >> => flat(chunks) = call.matches
  /\ Len(posted) <= Len(chunks)
  /\ \A i \in 1..Len(posted) :
        /\ posted[i].embeds = chunks[i]
        /\ ~ posted[i].ok => (i = Len(posted) /\ step = "threw")
  /\ step = "threw" => (posted # << >> /\ ~ posted[Len(posted)].ok)
  /\ step = "returned" =>
        /\ Len(posted) = Len(chunks)
        /\ ret = Some([threw |-> FALSE, value |-> Some(Len(call.matches))])
  /\ call.matches = << >> => posted = << >>

\* C25: sendDiscordAlerts splits the batch into consecutive chunks of at most
\* the configured limit (10 without one) and sends one message per chunk in
\* the order of the batch; it returns the size of the batch when every
\* message is accepted, sends nothing and returns 0 for an empty batch, and
\* throws at the first rejected message without sending the chunks after
\* it; and it terminates for every configured limit: every pass of the loop
\* that builds the chunks moves on in the batch, and every call returns or
\* throws.
C25_ChunkedDeliveryTerminates ==
  /\ []((call.fn = "sendDiscordAlerts" /\ call.webhook) => chunkedDelivery)
  /\ [][chunks' # chunks => cursor' > cursor]_vars
  /\ <>(call.fn = "sendDiscordAlerts" => settled)


\* the sold tracking of the run of process r has handled product number i
trackedBy(r, i) ==
  \/ pc[r] \in {"cleanup", "write", "append", "done"}
  \/ productIdx[r] > i
  \/ productIdx[r] = i /\ pc[r] = "alert"

\* the query of marketplace m for the product being processed failed
failedNow(r, m) == <<m, product(r).id, "failed">> \in outcomes[r]

\* C26: in the run in which the query of marketplace M for product P fails,
\* the sold tracking of P adds one to the missedRuns of every unsold entry
\* stored under M/P, and stamps soldAt when that makes 3; so once that query
\* has failed in three consecutive runs no entry under M/P is left unsold.
C26_FailedQueryCountsAsAbsence ==
  /\ [][\A r \in Procs :
          (pc[r] = "reconcile" /\ pc'[r] = "alert") =>
             \A k \in Keys :
                (/\ k[2] = product(r).id
                 /\ failedNow(r, k[1])
                 /\ IsSome(state[r].seen[k])
                 /\ Val(state[r].seen[k]).soldAt = None)
                  => LET before == Val(state[r].seen[k])
                         after == state'[r].seen[k]
                     IN  /\ IsSome(after)
                         /\ Val(after).missedRuns = before.missedRuns + 1
                         /\ Val(after).soldAt =
                               IF before.missedRuns + 1 >= SoldThreshold
                               THEN Some(runAt[r]) ELSE None]_vars
  /\ [](\A r \in Procs :
          \A i \in 1..Len(products(watchlist)) :
             \A k \in Keys :
                (/\ trackedBy(r, i)
                 /\ k[2] = products(watchlist)[i].id
                 /\ failStreak[<<k[1], k[2]>>] >= SoldThreshold
                 /\ IsSome(state[r].seen[k]))
                  => IsSome(Val(state[r].seen[k]).soldAt))


\* no two elements of the sequence q have the same image under f
distinctBy(q, f(_)) ==
  \A i, j \in 1..Len(q) : f(q[i]) = f(q[j]) => i = j

listingKey(l) == <<l.source, l.sourceId>>

\* C27: in every run the batch of a product holds each (marketplace, product,
\* listing id) at most once: every Match is classified against the state as
\* it was before the sightings of the product were recorded, and the listings
\* gathered for the product hold each marketplace listing id at most once.
C27_BatchHasNoDuplicates ==
  /\ [](\A r \in Procs :
          /\ pc[r] \in {"search", "reconcile", "alert"}
                => distinctBy(rawListings[r], listingKey)
          /\ pc[r] = "alert" => distinctBy(fresh[r], keyOf))
  /\ [][\A r \in Procs :
          (pc[r] = "reconcile" /\ pc'[r] = "alert") =>
             \A i \in 1..Len(fresh'[r]) :
                LET m == fresh'[r][i]
                    before == state[r].seen[keyOf(m)]
                IN  IF m.priceDrop = None THEN before = None
                    ELSE /\ IsSome(before)
                         /\ Val(m.priceDrop).previousPrice = Val(before).lastEffectivePrice]_vars


\* C28: a Match seen at a price not below the stored one is not alerted and
\* its price becomes the stored price, also when that is higher than a price
\* already alerted; so a listing alerted at p, stored since at a higher price
\* q and matched at p again, is in the batch once more, as a price drop of
\* q - p from q.
C28_RealertAfterPriceRise ==
  /\ [][\A r \in Procs :
          (pc[r] = "reconcile" /\ pc'[r] = "alert") =>
             \A i \in 1..Len(matches'[r]) :
                LET m == matches'[r][i]
                    before == state[r].seen[keyOf(m)]
                IN  (IsSome(before) /\ m.effectivePriceUsd >= Val(before).lastEffectivePrice)
                      => /\ \A j \in 1..Len(fresh'[r]) : keyOf(fresh'[r][j]) # keyOf(m)
                         /\ Val(state'[r].seen[keyOf(m)]).lastEffectivePrice
                               = m.effectivePriceUsd]_vars
  /\ [](\A r \in Procs :
          pc[r] = "alert" =>
             \A i \in 1..Len(matches[r]) :
                LET m == matches[r][i]
                IN  (/\ m.effectivePriceUsd \in notified[keyOf(m)]
                     /\ IsSome(stored(m))
                     /\ Val(stored(m)).lastEffectivePrice > m.effectivePriceUsd)
                      => \E j \in 1..Len(fresh[r]) :
                            fresh[r][j] =
                               [m EXCEPT !.priceDrop =
                                  Some([previousPrice |-> Val(stored(m)).lastEffectivePrice,
                                        dropAmount |-> Val(stored(m)).lastEffectivePrice
                                                         - m.effectivePriceUsd])])

\* a listing alerted at 320 and stored at 400 since is matched at 320: the
\* batch holds it as a price drop of 80 from 400
C28_Witness ==
  \E r \in Procs :
     /\ pc[r] = "alert"
     /\ Len(fresh[r]) = 1
     /\ fresh[r][1].effectivePriceUsd = 320
     /\ 320 \in notified[keyOf(fresh[r][1])]
     /\ Val(stored(fresh[r][1])).lastEffectivePrice = 400
     /\ fresh[r][1].priceDrop = Some([previousPrice |-> 400, dropAmount |-> 80])


\* the entry e has soldAt
isSold(e) == IsSome(e) /\ IsSome(Val(e).soldAt)

\* C29: an entry that has soldAt and whose listing is not in the raw results
\* of a run is left as it is by the missed-run detection of that run:
\* missedRuns and soldAt stay; afterwards only the sweep changes it, by
\* deleting it once soldAt is older than the retention.
C29_SoldEntryFrozen ==
  [][\A r \in Procs :
       /\ (pc[r] = "reconcile" /\ pc'[r] = "alert") =>
             \A k \in Keys :
                (/\ isSold(state[r].seen[k])
                 /\ k[2] = product(r).id
                 /\ k[3] \notin seenThisRunByMarket(rawListings[r], k[1]))
                  => state'[r].seen[k] = state[r].seen[k]
       /\ (pc[r] = "cleanup" /\ pc'[r] = "write") =>
             \A k \in Keys :
                isSold(state[r].seen[k]) =>
                   state'[r].seen[k] =
                      IF Val(Val(state[r].seen[k]).soldAt) < clock - SOLD_RETENTION_DAYS
                      THEN None ELSE state[r].seen[k]]_vars

\* a run whose queries were answered without the listing of an entry marked
\* sold on the day of the cutoff has persisted the entry as it was
C29_Witness ==
  \E r \in Procs :
     /\ pc[r] = "append"
     /\ \E k \in StockedKeys :
           /\ <<k[1], k[2], "answered">> \in outcomes[r]
           /\ streak[r][k] > SoldThreshold
           /\ stateFile.seen[k] = Some(soldEntry(SweepEdge))
           /\ Val(stateFile.seen[k]).missedRuns = SoldThreshold


\* no process other than r is running main()
alone(r) == \A o \in Procs \ {r} : Stopped(o)

\* the state file is still the document r read
unwritten(r) == readState(stateFile) = readDoc[r]

\* the batch of r holds m as New
alertedNew(r, m) ==
  \E j \in 1..Len(fresh[r]) :
     keyOf(fresh[r][j]) = keyOf(m) /\ fresh[r][j].priceDrop = None

\* C30: runs take no lock on the state file. A run that writes after another
\* run has written since it read leaves its own document as the state file:
\* every entry is the one the writer holds, which for a listing the writer
\* did not touch is the entry it read, whatever the other run recorded; and
\* a Match with no entry in the document the run read is in the batch as New
\* even when the other run has recorded and alerted it meanwhile. While no
\* other run is in flight and none has written since the run read, a Match
\* alerted as New has no stored entry and no alert delivered yet, and the
\* write keeps firstSeenAt of every stored entry.
C30_OverlapLastWriterWins ==
  /\ [][\A r \in Procs :
          (pc[r] = "write" /\ pc'[r] = "append") =>
             /\ stateFile' = state[r]
             /\ \A k \in Keys :
                   state[r].seen[k] = readDoc[r].seen[k]
                      => stateFile'.seen[k] = readDoc[r].seen[k]
             /\ (alone(r) /\ unwritten(r)) =>
                   \A k \in Keys :
                      IsSome(stateFile.seen[k]) =>
                         /\ IsSome(stateFile'.seen[k])
                         /\ Val(stateFile'.seen[k]).firstSeenAt
                               = Val(stateFile.seen[k]).firstSeenAt]_vars
  /\ [](\A r \in Procs :
          pc[r] = "alert" =>
             \A i \in 1..Len(matches[r]) :
                LET m == matches[r][i]
                IN  /\ readDoc[r].seen[keyOf(m)] = None => alertedNew(r, m)
                    /\ (alone(r) /\ unwritten(r) /\ alertedNew(r, m))
                          => stored(m) = None /\ notified[keyOf(m)] = {})

\* both runs read the empty document; the run started second has recorded
\* and alerted the listing and written the state file; the run started
\* first alerts the listing as New as well and, writing last, has replaced
\* the entry of the other run by its own
C30_Witness ==
  \E r \in Procs : \E o \in Procs \ {r} :
     /\ pc[r] = "done" /\ pc[o] = "done"
     /\ readDoc[r] = emptyStateFile /\ readDoc[o] = emptyStateFile
     /\ runAt[r] < runAt[o]
     /\ totalAlerts[r] = 1 /\ totalAlerts[o] = 1
     /\ stateFile = state[r]
     /\ \E k \in Keys :
           /\ IsSome(state[o].seen[k])
           /\ IsSome(stateFile.seen[k])
           /\ Val(state[o].seen[k]).firstSeenAt = runAt[o]
           /\ Val(stateFile.seen[k]).firstSeenAt = runAt[r]
           /\ Cardinality(notified[k]) = 1

=============================================================================
